---- MODULE Spec2Model ----
(***************************************************************************)
(* Model of demonstrations/tutorial_contextuality.py: the rock-paper-      *)
(* scissors data generator (rule matrices, get_strat_mats, payoff_probs,   *)
(* generate_data on the module-level numpy generator) and the three-qubit  *)
(* biased circuit (input_prep, bias_inv_layer, Z readout).                 *)
(*                                                                         *)
(* Numbers.  Reals are exact rationals <<n, d>>, d > 0, in lowest terms;   *)
(* <<0, 0>> is the float NaN that 0/0 produces.  A uniform draw of         *)
(* np.random.rand, a float of [0,1), is a level u in 0..MaxDraw standing   *)
(* for u/(MaxDraw+1).  Three specifications share the definitions: Spec    *)
(* (generation calls on the seeded module-level generator), SpecData (one  *)
(* matrix through get_strat_mats and payoff_probs under arbitrary draws)   *)
(* and SpecModel (one evaluation of the biased circuit).                   *)
(***************************************************************************)
EXTENDS Integers, Sequences, FiniteSets, TLC

VARIABLES
    rng,        \* state of the module-level numpy generator (np.random)
    consumed,   \* number of uniform draws taken from it since np.random.seed
    calls,      \* the generation calls made so far, with what each returned
    stage,      \* position of the one-matrix data pipeline
    U,          \* the array np.random.rand returned to get_strat_mats
    X,          \* the strategy matrix get_strat_mats returned
    P,          \* the payoff probabilities payoff_probs returned
    gen,        \* the locals of one generate_data call and its position
    weights,    \* the weight tensor passed to model
    x,          \* the data input passed to model
    tape,       \* the operations the quantum function queued, in order
    pc,         \* number of queued operations the device has applied
    psi,        \* the state vector of the three qubits
    expvals,    \* the expectation values model returns
    X_test,     \* the strategy matrices of the test set
    probs,      \* the model's marginals, per player (P(+1), P(-1))
    probs_test, \* the true marginals of the test set, same layout
    kl,         \* the running and the final value of kl_marginals
    lk,         \* the arguments and locals of one likelihood call
    run,        \* the script's globals and the locals of optimise_model
    call,       \* one call made with arbitrary arguments, and its outcome
    par         \* a batch whose samples are processed in any order

rngVars  == <<rng, consumed, calls>>
dataVars == <<stage, U, X, P>>
circVars == <<weights, x, tape, pc, psi, expvals>>
evalVars == <<X_test, probs, probs_test, kl, lk, run, call, par>>
vars     == <<rng, consumed, calls, stage, U, X, P, gen, weights, x, tape, pc, psi,
              expvals, X_test, probs, probs_test, kl, lk, run, call,
              par>>

(***************************************************************************)
(* Bounds of the model.                                                    *)
(***************************************************************************)
MaxDraw  == 1      \* uniform draws take the levels 0..MaxDraw
MaxN     == 2      \* generation calls ask for 1..MaxN matrices
MaxCalls == 3      \* generation calls recorded in one run
MaxAngle == 3      \* weight angles are 0..MaxAngle quarter turns
MaxLevel == 2      \* expectation values are k/MaxLevel, k in -MaxLevel..MaxLevel
MaxSteps == 2      \* optimise_model is asked for 0..MaxSteps steps

Idx == 0..2        \* players, actions, rows and columns of the 3 x 3 arrays

(***************************************************************************)
(* Exact arithmetic standing for the float arithmetic of numpy / jax.      *)
(***************************************************************************)
Abs(a) == IF a < 0 THEN -a ELSE a

RECURSIVE GCD(_, _)
GCD(a, b) == IF b = 0 THEN a ELSE GCD(b, a % b)

NaN == <<0, 0>>
IsNaN(p) == p[2] = 0

Frac(n, d) ==
    IF d = 0 THEN NaN
    ELSE LET g == GCD(Abs(n), Abs(d))
             s == IF d < 0 THEN -1 ELSE 1
         IN  <<s * (n \div g), s * (d \div g)>>

FInt(k) == <<k, 1>>
FAdd(p, q) == IF IsNaN(p) \/ IsNaN(q) THEN NaN
              ELSE Frac(p[1] * q[2] + q[1] * p[2], p[2] * q[2])
FNeg(p) == <<-p[1], p[2]>>
FSub(p, q) == FAdd(p, FNeg(q))
FMul(p, q) == IF IsNaN(p) \/ IsNaN(q) THEN NaN
              ELSE Frac(p[1] * q[1], p[2] * q[2])
\* x / y of two floats; only 0/0 and x/y with y # 0 arise in this program
FDiv(p, q) == IF IsNaN(p) \/ IsNaN(q) THEN NaN
              ELSE Frac(p[1] * q[2], p[2] * q[1])
\* comparisons; every comparison with NaN is false, as in IEEE arithmetic
FLeq(p, q) == ~IsNaN(p) /\ ~IsNaN(q) /\ p[1] * q[2] <= q[1] * p[2]
FLt(p, q)  == ~IsNaN(p) /\ ~IsNaN(q) /\ p[1] * q[2] < q[1] * p[2]

Sum3F(v) == FAdd(FAdd(v[0], v[1]), v[2])

(***************************************************************************)
(* The rule matrices.                                                      *)
(***************************************************************************)
Mat(rows) == [i \in Idx |-> [j \in Idx |-> rows[i + 1][j + 1]]]
Transpose(A) == [i \in Idx |-> [j \in Idx |-> A[j][i]]]
Negate(A) == [i \in Idx |-> [j \in Idx |-> -A[i][j]]]

A01 == Mat(<< <<1, -1, 1>>, <<1, -1, -1>>, <<-1, 1, 0>> >>)
A02_typo == Mat(<< <<1, -1, 1>>, <<1, -1, -1>>, <<-1, 1, -1>> >>)
A02 == Mat(<< <<1, -1, 1>>, <<1, 0, -1>>, <<-1, 1, -1>> >>)
A12 == Mat(<< <<0, -1, 1>>, <<1, 1, -1>>, <<-1, 1, -1>> >>)

A10 == Negate(Transpose(A01))
A20_plain_transpose == Transpose(A02)
A20 == Negate(Transpose(A02))
A21 == Negate(Transpose(A12))

(***************************************************************************)
(* The rules of the game as the tutorial states them: R = 0, P = 1, S = 2; *)
(* player k's special action is action k.                                  *)
(***************************************************************************)
Beats(i, j) == (i - j) % 3 = 1      \* rock > scissors > paper > rock
Special(k) == k
GameRule(a, b, i, j) ==
    IF i # j THEN (IF Beats(i, j) THEN 1 ELSE -1)
    ELSE IF i = Special(a) THEN 1
    ELSE IF i = Special(b) THEN -1
    ELSE 0

(***************************************************************************)
(* get_strat_mats: N x 3 x 3 uniform draws, each row divided by its sum.   *)
(* u is the array np.random.rand(N,3,3) returned.                          *)
(***************************************************************************)
RowSum(row) == row[0] + row[1] + row[2]
NormRow(row) == [c \in Idx |-> FDiv(FInt(row[c]), FInt(RowSum(row)))]
get_strat_mats(N, u) ==
    [i \in 0..(N - 1) |-> [k \in Idx |-> NormRow(u[i][k])]]

(***************************************************************************)
(* payoff_probs                                                            *)
(***************************************************************************)
\* jnp.matmul(v, A) for a row vector v and an integer matrix A
VecMat_transposed(v, A) ==
    [j \in Idx |-> Sum3F([i \in Idx |-> FMul(v[i], FInt(A[j][i]))])]
VecMat(v, A) ==
    [j \in Idx |-> Sum3F([i \in Idx |-> FMul(v[i], FInt(A[i][j]))])]
\* jnp.matmul(v, w) of two vectors
Dot(v, w) == Sum3F([i \in Idx |-> FMul(v[i], w[i])])
Bilinear(v, A, w) == Dot(VecMat(v, A), w)

Scores_wrong_matrix(sm) ==
    [k \in Idx |->
        CASE k = 0 -> FAdd(Bilinear(sm[0], A01, sm[1]), Bilinear(sm[0], A02, sm[2]))
          [] k = 1 -> FAdd(Bilinear(sm[1], A01, sm[0]), Bilinear(sm[1], A12, sm[2]))
          [] k = 2 -> FAdd(Bilinear(sm[2], A20, sm[0]), Bilinear(sm[2], A21, sm[1]))]

Scores(sm) ==
    [k \in Idx |->
        CASE k = 0 -> FAdd(Bilinear(sm[0], A01, sm[1]), Bilinear(sm[0], A02, sm[2]))
          [] k = 1 -> FAdd(Bilinear(sm[1], A10, sm[0]), Bilinear(sm[1], A12, sm[2]))
          [] k = 2 -> FAdd(Bilinear(sm[2], A20, sm[0]), Bilinear(sm[2], A21, sm[1]))]
ToProb_unhalved(n) == FDiv(FAdd(n, FInt(1)), FInt(2))
ToProb(n) == FDiv(FAdd(FDiv(n, FInt(2)), FInt(1)), FInt(2))

payoff_probs(sm) == [k \in Idx |-> ToProb(Scores(sm)[k])]

\* jax.vmap(payoff_probs)
vpayoff_probs_reversed(xs) ==
    [i \in DOMAIN xs |-> payoff_probs(xs[(Cardinality(DOMAIN xs) - 1) - i])]
vpayoff_probs(xs) == [i \in DOMAIN xs |-> payoff_probs(xs[i])]

NoData == [k \in Idx |-> [c \in Idx |-> 0]]
NoMat == [k \in Idx |-> [c \in Idx |-> NaN]]
NoVec == [k \in Idx |-> NaN]

(***************************************************************************)
(* The three-qubit circuit.                                                *)
(*                                                                         *)
(* Angles are whole numbers of quarter turns (pi/2), so np.pi is 2.  The   *)
(* amplitudes of such circuits lie in Z[w], w = exp(i*pi/4), up to a       *)
(* positive factor: an amplitude is <<a0,a1,a2,a3>> for a0 + a1*w +        *)
(* a2*w^2 + a3*w^3, and psi is the state vector up to a positive factor    *)
(* (expectation values divide by <psi|psi>).  Basis state s in 0..7 has    *)
(* qubit 0 as its most significant bit.                                    *)
(***************************************************************************)
blocks == 1
layers == 2
Pi == 2

Basis == 0..7
Wires == 0..2
ZZero == <<0, 0, 0, 0>>
ZOne  == <<1, 0, 0, 0>>
ZAdd(a, b) == <<a[1] + b[1], a[2] + b[2], a[3] + b[3], a[4] + b[4]>>
ZScale(c, a) == <<c * a[1], c * a[2], c * a[3], c * a[4]>>
ZSub(a, b) == ZAdd(a, ZScale(-1, b))
ZMulW(a) == <<-a[4], a[1], a[2], a[3]>>          \* a * w
ZMulI(a) == <<-a[3], -a[4], a[1], a[2]>>         \* a * i
RECURSIVE ZMulWTimes(_, _)
ZMulWTimes(a, k) == IF k = 0 THEN a ELSE ZMulWTimes(ZMulW(a), k - 1)
ZPhase(a, t) == ZMulWTimes(a, t % 8)             \* a * exp(i*t*pi/4)
\* |a|^2 = r + q*sqrt(2), as <<r, q>>
ZNorm2(a) == <<a[1] * a[1] + a[2] * a[2] + a[3] * a[3] + a[4] * a[4],
               a[1] * a[2] + a[2] * a[3] + a[3] * a[4] - a[1] * a[4]>>

\* cos and sin of t eighth turns: exact for even t, times sqrt(2) for odd t
CosQ(t) == LET k == t % 8 IN IF k \in {0, 1, 7} THEN 1 ELSE IF k \in {2, 6} THEN 0 ELSE -1
SinQ(t) == LET k == t % 8 IN IF k \in {1, 2, 3} THEN 1 ELSE IF k \in {0, 4} THEN 0 ELSE -1

Bit(s, q) == (s \div (CASE q = 0 -> 4 [] q = 1 -> 2 [] q = 2 -> 1)) % 2
Flip(s, q) == IF Bit(s, q) = 0
              THEN s + (CASE q = 0 -> 4 [] q = 1 -> 2 [] q = 2 -> 1)
              ELSE s - (CASE q = 0 -> 4 [] q = 1 -> 2 [] q = 2 -> 1)
Weight(s) == Bit(s, 0) + Bit(s, 1) + Bit(s, 2)

\* a state vector is the tuple of the amplitudes of the basis states 0..7
At(v, s) == v[s + 1]

\* the common positive factor 2 taken out of a state vector
AllEven(v) == \A s \in Basis : \A j \in 1..4 : At(v, s)[j] % 2 = 0
RECURSIVE Reduce(_)
Reduce(v) ==
    IF AllEven(v) /\ \E s \in Basis : At(v, s) # ZZero
    THEN LET half(s) == <<At(v, s)[1] \div 2, At(v, s)[2] \div 2,
                          At(v, s)[3] \div 2, At(v, s)[4] \div 2>>
         IN  Reduce(<<half(0), half(1), half(2), half(3), half(4), half(5), half(6), half(7)>>)
    ELSE v

\* concatenation of the segments f[0], ..., f[n-1]
RECURSIVE Concat(_, _)
Concat(f, n) == IF n = 0 THEN <<>> ELSE Concat(f, n - 1) \o f[n - 1]

\* the queued operations
Hadamard(w) == [name |-> "Hadamard", word |-> "", theta |-> 0, wires |-> <<w>>]
RY(theta, w) == [name |-> "RY", word |-> "", theta |-> theta, wires |-> <<w>>]
RZ(theta, w) == [name |-> "RZ", word |-> "", theta |-> theta, wires |-> <<w>>]
PauliRot(theta, word, ws) == [name |-> "PauliRot", word |-> word, theta |-> theta, wires |-> ws]

\* what the device does to the state vector for one operation
ApplyHadamardTo(v, q) ==
    LET amp(s) == IF Bit(s, q) = 0 THEN ZAdd(At(v, s), At(v, Flip(s, q)))
                  ELSE ZSub(At(v, Flip(s, q)), At(v, s))
    IN  <<amp(0), amp(1), amp(2), amp(3), amp(4), amp(5), amp(6), amp(7)>>
ApplyRYTo(v, t, q) ==
    LET amp(s) == IF Bit(s, q) = 0
                  THEN ZSub(ZScale(CosQ(t), At(v, s)), ZScale(SinQ(t), At(v, Flip(s, q))))
                  ELSE ZAdd(ZScale(SinQ(t), At(v, Flip(s, q))), ZScale(CosQ(t), At(v, s)))
    IN  <<amp(0), amp(1), amp(2), amp(3), amp(4), amp(5), amp(6), amp(7)>>
ApplyRZTo(v, t, q) ==
    LET amp(s) == ZPhase(At(v, s), IF Bit(s, q) = 0 THEN -t ELSE t)
    IN  <<amp(0), amp(1), amp(2), amp(3), amp(4), amp(5), amp(6), amp(7)>>
\* exp(-i*theta/2 * W) = cos(theta/2) - i sin(theta/2) W for a Pauli word W
ApplyPauliRotTo(v, t, word, ws) ==
    LET a == ws[1]
        b == ws[2]
        same(s) == Bit(s, a) = Bit(s, b)
        other(s) == Flip(Flip(s, a), b)
        W(s) == CASE word = "XX" -> At(v, other(s))
                  [] word = "YY" -> ZScale(IF same(s) THEN -1 ELSE 1, At(v, other(s)))
        diag(s) == ZPhase(At(v, s), IF same(s) THEN -t ELSE t)
        amp(s) == ZSub(ZScale(CosQ(t), At(v, s)), ZScale(SinQ(t), ZMulI(W(s))))
    IN  IF word = "ZZ"
        THEN <<diag(0), diag(1), diag(2), diag(3), diag(4), diag(5), diag(6), diag(7)>>
        ELSE <<amp(0), amp(1), amp(2), amp(3), amp(4), amp(5), amp(6), amp(7)>>
ApplyCNOTTo(v, c, t) ==
    LET amp(s) == IF Bit(s, c) = 1 THEN At(v, Flip(s, t)) ELSE At(v, s)
    IN  <<amp(0), amp(1), amp(2), amp(3), amp(4), amp(5), amp(6), amp(7)>>

\* qml.StronglyEntanglingLayers(w, wires=range(3)), w of shape (L, 3, 3): the
\* device expands it, for each layer l of w, into Rot(w[l,i,0], w[l,i,1],
\* w[l,i,2]) on every wire i, Rot(phi, theta, omega) being RZ(phi), RY(theta),
\* RZ(omega) in this order, and then CNOT(i, (i + r) mod 3) for every wire i,
\* r = (l mod 2) + 1
CNOT(c, t) == [name |-> "CNOT", word |-> "", theta |-> 0, wires |-> <<c, t>>]
Rot(phi, theta, omega, w) == << RZ(phi, w), RY(theta, w), RZ(omega, w) >>
StronglyEntanglingLayers(w, ws) ==
    [name |-> "StronglyEntanglingLayers", word |-> "", theta |-> w, wires |-> ws]
Expansion(g) ==
    Concat([l \in 0..(Cardinality(DOMAIN g.theta) - 1) |->
               Rot(g.theta[l][0][0], g.theta[l][0][1], g.theta[l][0][2], g.wires[1])
               \o Rot(g.theta[l][1][0], g.theta[l][1][1], g.theta[l][1][2], g.wires[2])
               \o Rot(g.theta[l][2][0], g.theta[l][2][1], g.theta[l][2][2], g.wires[3])
               \o << CNOT(g.wires[1], g.wires[((0 + (l % 2) + 1) % 3) + 1]),
                     CNOT(g.wires[2], g.wires[((1 + (l % 2) + 1) % 3) + 1]),
                     CNOT(g.wires[3], g.wires[((2 + (l % 2) + 1) % 3) + 1]) >>],
           Cardinality(DOMAIN g.theta))

RECURSIVE ApplyRaw(_, _)
RECURSIVE ApplyExpansion(_, _)
ApplyExpansion(gs, v) ==
    IF gs = <<>> THEN v
    ELSE CHOOSE out \in {ApplyExpansion(Tail(gs), vv) : vv \in {ApplyRaw(v, Head(gs))}} : TRUE
ApplyRaw(v, g) ==
    CASE g.name = "Hadamard" -> ApplyHadamardTo(v, g.wires[1])
      [] g.name = "RY"       -> ApplyRYTo(v, g.theta, g.wires[1])
      [] g.name = "RZ"       -> ApplyRZTo(v, g.theta, g.wires[1])
      [] g.name = "PauliRot" -> ApplyPauliRotTo(v, g.theta, g.word, g.wires)
      [] g.name = "CNOT"     -> ApplyCNOTTo(v, g.wires[1], g.wires[2])
      [] g.name = "StronglyEntanglingLayers" -> ApplyExpansion(Expansion(g), v)
ApplyOp(v, g) == Reduce(ApplyRaw(v, g))

input_prep_no_pi(alpha) ==
    << Hadamard(0), Hadamard(1), Hadamard(2), RY(alpha[0], 0), RY(alpha[0], 1) >>
input_prep(alpha) ==
    << Hadamard(0), Hadamard(1), Hadamard(2), RY(alpha[0], 0), RY(alpha[0] + Pi, 1) >>

swap_rot_no_yy(w, ws) ==
    << PauliRot(w, "XX", ws), PauliRot(w, "ZZ", ws) >>
swap_rot(w, ws) ==
    << PauliRot(w, "XX", ws), PauliRot(w, "YY", ws), PauliRot(w, "ZZ", ws) >>

param_unitary(w) ==
    Concat([b \in 0..(blocks - 1) |->
               << RZ(w[b][0], 0), RZ(w[b][1], 1), RZ(w[b][2], 2) >>
               \o << PauliRot(w[b][3], "ZZ", <<0, 1>>),
                     PauliRot(w[b][4], "ZZ", <<0, 2>>),
                     PauliRot(w[b][5], "ZZ", <<1, 2>>) >>
               \o swap_rot(w[b][6], <<0, 1>>)
               \o swap_rot(w[b][7], <<1, 2>>)
               \o swap_rot(w[b][8], <<0, 2>>)],
           blocks)

data_encoding_ry(v) == << RY(v[0], 0), RY(v[1], 1), RY(v[2], 2) >>
data_encoding(v) == << RZ(v[0], 0), RZ(v[1], 1), RZ(v[2], 2) >>

data_encoding_pairs_wrong_angle(v) ==
    << PauliRot(v[0] * v[1], "ZZ", <<0, 1>>),
       PauliRot(v[0] * v[1], "ZZ", <<1, 2>>),
       PauliRot(v[0] * v[2], "ZZ", <<0, 2>>) >>
data_encoding_pairs(v) ==
    << PauliRot(v[0] * v[1], "ZZ", <<0, 1>>),
       PauliRot(v[1] * v[2], "ZZ", <<1, 2>>),
       PauliRot(v[0] * v[2], "ZZ", <<0, 2>>) >>

Feature1(d) == [k \in Idx |-> d[k][k]]
Feature2(d) == [k \in Idx |-> CASE k = 0 -> d[0][1] - d[0][2]
                                [] k = 1 -> d[1][2] - d[1][0]
                                [] k = 2 -> d[2][0] - d[2][1]]

bias_inv_layer_pairs_first(w, d) ==
    Concat([l \in 0..(layers - 1) |->
               param_unitary(w[2 * l]) \o data_encoding_pairs(Feature2(d))
               \o param_unitary(w[2 * l + 1]) \o data_encoding(Feature1(d))],
           layers)
    \o param_unitary(w[2 * layers])
bias_inv_layer(w, d) ==
    Concat([l \in 0..(layers - 1) |->
               param_unitary(w[2 * l]) \o data_encoding(Feature1(d))
               \o param_unitary(w[2 * l + 1]) \o data_encoding_pairs(Feature2(d))],
           layers)
    \o param_unitary(w[2 * layers])

\* the operations model queues before its measurements
model(w, d) == input_prep(w[2 * layers + 1][0]) \o bias_inv_layer(w, d)

\* generic_layer: the features are computed by its own lines
GenericFeature1(d) == [k \in Idx |-> d[k][k]]
GenericFeature2_flipped(d) ==
    [k \in Idx |-> CASE k = 0 -> d[0][2] - d[0][1]
                      [] k = 1 -> d[1][2] - d[1][0]
                      [] k = 2 -> d[2][0] - d[2][1]]
GenericFeature2(d) ==
    [k \in Idx |-> CASE k = 0 -> d[0][1] - d[0][2]
                      [] k = 1 -> d[1][2] - d[1][0]
                      [] k = 2 -> d[2][0] - d[2][1]]
generic_layer(w, d) ==
    Concat([l \in 0..(layers - 1) |->
               << StronglyEntanglingLayers(w[2 * l], <<0, 1, 2>>) >>
               \o data_encoding(GenericFeature1(d))
               \o << StronglyEntanglingLayers(w[2 * l + 1], <<0, 1, 2>>) >>
               \o data_encoding_pairs(GenericFeature2(d))],
           layers)
    \o << StronglyEntanglingLayers(w[2 * layers], <<0, 1, 2>>) >>

\* the operations generic_model queues before its measurements
generic_model(w, d) == generic_layer(w, d)

(***************************************************************************)
(* The entries of the weight tensor one evaluation indexes, in program     *)
(* order: an index <<l, b, j>> stands for one evaluation of weights[l,b,j]  *)
(* (<<l, b, q, j>> for the generic weights).                               *)
(***************************************************************************)
\* alpha[0] in qml.RY(alpha[0],wires=0) and in qml.RY(alpha[0]+np.pi,wires=1);
\* a is the path of alpha in the weight tensor
input_prep_reads_two_entries(a) == << a \o <<0>>, a \o <<1>> >>
input_prep_reads(a) == << a \o <<0>>, a \o <<0>> >>
\* weights[b,q] for q = 0, 1, 2 and weights[b,3], ..., weights[b,8]; sl is the
\* path of the slice passed to param_unitary
param_unitary_reads(sl) ==
    Concat([b \in 0..(blocks - 1) |-> [j \in 1..9 |-> sl \o <<b, j - 1>>]], blocks)
bias_inv_layer_reads ==
    Concat([l \in 0..(layers - 1) |->
               param_unitary_reads(<<2 * l>>) \o param_unitary_reads(<<2 * l + 1>>)],
           layers)
    \o param_unitary_reads(<<2 * layers>>)
model_reads == input_prep_reads(<<2 * layers + 1, 0>>) \o bias_inv_layer_reads
\* StronglyEntanglingLayers(weights[l]) takes every entry of the slice
template_reads(sl) ==
    Concat([b \in 0..(blocks - 1) |->
               [n \in 1..9 |-> sl \o <<b, (n - 1) \div 3, (n - 1) % 3>>]],
           blocks)
generic_model_reads ==
    Concat([l \in 0..(2 * layers) |-> template_reads(<<l>>)], 2 * layers + 1)

\* <Z_k> * <psi|psi> and <psi|psi>, each r + q*sqrt(2) as <<r, q>>
RECURSIVE SumNorm(_, _, _)
SumNorm(v, k, s) ==
    IF s < 0 THEN <<0, 0>>
    ELSE LET n == ZNorm2(At(v, s))
             sg == IF k < 0 THEN 1 ELSE IF Bit(s, k) = 0 THEN 1 ELSE -1
             rest == SumNorm(v, k, s - 1)
         IN  <<rest[1] + sg * n[1], rest[2] + sg * n[2]>>
ExpvalZ(v, k) == SumNorm(v, k, 7)
NormPsi(v) == SumNorm(v, -1, 7)

\* the weight tensors and data inputs examined
WeightEntry(s0, s1, l, b, j) == (s0 * (l + 1) + s1 * (j + 1) + b) % (MaxAngle + 1)
WeightTensors ==
    { [l \in 0..(2 * layers + 1) |-> [b \in 0..(blocks - 1) |->
          [j \in 0..8 |-> WeightEntry(s0, s1, l, b, j)]]] :
      s0 \in 0..MaxAngle, s1 \in 0..MaxAngle }
\* weights_generic has the shape (2*layers+1, blocks, 3, 3)
GenericWeightTensors ==
    { [l \in 0..(2 * layers) |-> [b \in 0..(blocks - 1) |->
          [q \in 0..2 |-> [j \in 0..2 |-> WeightEntry(s0, s1, l, b, 3 * q + j)]]]] :
      s0 \in 0..MaxAngle, s1 \in 0..MaxAngle }
\* pure strategy matrices: player k plays action a[k]
PureInputs ==
    { [k \in Idx |-> [c \in Idx |-> IF c = a[k] THEN 1 ELSE 0]] : a \in [Idx -> Idx] }
BasisKet(b) ==
    LET amp(s) == IF s = b THEN ZOne ELSE ZZero
    IN  <<amp(0), amp(1), amp(2), amp(3), amp(4), amp(5), amp(6), amp(7)>>
Ket000 == BasisKet(0)
NoExpvals == <<>>

NoCircuit ==
    /\ weights = <<>> /\ x = <<>> /\ tape = <<>>
    /\ pc = 0 /\ psi = <<>> /\ expvals = NoExpvals
NoGen == [at |-> "none"]
NoEval ==
    /\ X_test = <<>> /\ probs = <<>> /\ probs_test = <<>> /\ kl = <<>>
    /\ lk = [at |-> "none"] /\ run = [at |-> "none"] /\ call = [at |-> "none"]
    /\ par = [at |-> "none"]

InitModel ==
    /\ weights \in WeightTensors
    /\ x \in PureInputs
    /\ tape = model(weights, x)
    /\ pc = 0
    /\ psi = Ket000
    /\ expvals = NoExpvals
    /\ rng = 0 /\ consumed = 0 /\ calls = <<>>
    /\ stage = "model" /\ U = NoData /\ X = NoMat /\ P = NoVec
    /\ gen = NoGen /\ NoEval

ApplyNext(kind) ==
    /\ pc < Len(tape)
    /\ tape[pc + 1].name = kind
    /\ psi' = ApplyOp(psi, tape[pc + 1])
    /\ pc' = pc + 1
    /\ UNCHANGED <<weights, x, tape, expvals>>
    /\ UNCHANGED rngVars
    /\ UNCHANGED <<stage, U, X, P, gen>>
    /\ UNCHANGED evalVars

DoHadamard == ApplyNext("Hadamard")
DoRY       == ApplyNext("RY")
DoRZ       == ApplyNext("RZ")
DoPauliRot == ApplyNext("PauliRot")

\* return [qml.expval(qml.PauliZ(0)), qml.expval(qml.PauliZ(1)), qml.expval(qml.PauliZ(2))]
Measure ==
    /\ pc = Len(tape)
    /\ expvals = NoExpvals
    /\ expvals' = [k \in Wires |-> [num |-> ExpvalZ(psi, k), den |-> NormPsi(psi)]]
    /\ UNCHANGED <<weights, x, tape, pc, psi>>
    /\ UNCHANGED rngVars
    /\ UNCHANGED <<stage, U, X, P, gen>>
    /\ UNCHANGED evalVars

NextModel == DoHadamard \/ DoRY \/ DoRZ \/ DoPauliRot \/ Measure
SpecModel == InitModel /\ [][NextModel]_vars

\* one evaluation of generic_model
InitGeneric ==
    /\ weights \in GenericWeightTensors
    /\ x \in PureInputs
    /\ tape = generic_model(weights, x)
    /\ pc = 0
    /\ psi = Ket000
    /\ expvals = NoExpvals
    /\ rng = 0 /\ consumed = 0 /\ calls = <<>>
    /\ stage = "generic_model" /\ U = NoData /\ X = NoMat /\ P = NoVec
    /\ gen = NoGen /\ NoEval

DoStronglyEntanglingLayers == ApplyNext("StronglyEntanglingLayers")

NextGeneric == DoStronglyEntanglingLayers \/ DoRZ \/ DoPauliRot \/ Measure
SpecGeneric == InitGeneric /\ [][NextGeneric]_vars

\* one evaluation of either model
SpecModels == (InitModel \/ InitGeneric) /\ [][NextModel \/ NextGeneric]_vars

(***************************************************************************)
(* vmodel = jax.jit(jax.vmap(model,(None,0))) called with a weight tensor  *)
(* that is too small.  Inside jit the tensor is a traced jax array, and    *)
(* jax clamps an out-of-bounds index of a retrieval to the last position   *)
(* of the axis; it raises nothing.                                         *)
(***************************************************************************)
Min(a, b) == IF a < b THEN a ELSE b
Truncated(w, S, J) ==
    [l \in 0..(S - 1) |-> [b \in 0..(blocks - 1) |-> [j \in 0..(J - 1) |-> w[l][b][j]]]]
\* the entries the indexing expressions of model and param_unitary return
JaxIndexed(w) ==
    LET S == Cardinality(DOMAIN w)
        B == Cardinality(DOMAIN w[0])
        J == Cardinality(DOMAIN w[0][0])
    IN  [l \in 0..(2 * layers + 1) |-> [b \in 0..(blocks - 1) |-> [j \in 0..8 |->
            w[Min(l, S - 1)][Min(b, B - 1)][Min(j, J - 1)]]]]
\* one slice short, or one entry per block short
ShortTensors ==
    { Truncated(w, 2 * layers + 1, 9) : w \in WeightTensors }
    \cup { Truncated(w, 2 * layers + 2, 8) : w \in WeightTensors }
CyclicInputs ==
    { [k \in Idx |-> [c \in Idx |-> IF c = (k + a) % 3 THEN 1 ELSE 0]] : a \in Idx }

InitShapes ==
    /\ weights \in ShortTensors
    /\ x \in CyclicInputs
    /\ tape = model(JaxIndexed(weights), x)
    /\ pc = 0
    /\ psi = Ket000
    /\ expvals = NoExpvals
    /\ rng = 0 /\ consumed = 0 /\ calls = <<>>
    /\ stage = "vmodel" /\ U = NoData /\ X = NoMat /\ P = NoVec
    /\ gen = NoGen /\ NoEval

SpecShapes == InitShapes /\ [][NextModel]_vars

(***************************************************************************)
(* The one-matrix data pipeline under arbitrary draws.                     *)
(***************************************************************************)
Draws == [Idx -> [Idx -> 0..MaxDraw]]

InitData ==
    /\ stage = "drawn"
    /\ U \in Draws
    /\ X = NoMat
    /\ P = NoVec
    /\ rng = 0 /\ consumed = 0 /\ calls = <<>>
    /\ gen = NoGen
    /\ NoCircuit /\ NoEval

StratMats ==
    /\ stage = "drawn"
    /\ X' = get_strat_mats(1, [i \in {0} |-> U])[0]
    /\ stage' = "strat"
    /\ UNCHANGED <<U, P, gen>>
    /\ UNCHANGED rngVars
    /\ UNCHANGED circVars
    /\ UNCHANGED evalVars

PayoffProbs ==
    /\ stage = "strat"
    /\ P' = payoff_probs(X)
    /\ stage' = "probs"
    /\ UNCHANGED <<U, X, gen>>
    /\ UNCHANGED rngVars
    /\ UNCHANGED circVars
    /\ UNCHANGED evalVars

NextData == StratMats \/ PayoffProbs
SpecData == InitData /\ [][NextData]_vars

(***************************************************************************)
(* The module-level generator.  np.random (seeded once by                  *)
(* np.random.seed(666)) is a deterministic state machine: a draw returns a *)
(* value computed from the state and moves to the next state.  Its         *)
(* Mersenne Twister is stood for by a multiplicative congruential          *)
(* generator of full period on 1..RngMod-1.                                *)
(***************************************************************************)
RngMod == 31
RngMul == 3
Seed   == 666
SeedState == (Seed % (RngMod - 1)) + 1
RngNext(s) == (RngMul * s) % RngMod
RngOut(s) == s % (MaxDraw + 1)

\* the generator state k draws after state s (the generator has period
\* RngMod - 1)
RECURSIVE RngSteps(_, _)
RngSteps(s, k) == IF k = 0 THEN s ELSE RngSteps(RngNext(s), k - 1)
RngAfter(s, k) == RngSteps(s, k % (RngMod - 1))

\* np.random.rand(...) of k values in all, from generator state s:
\* the values in C order, and the state the generator is left in
rand_stateless(s, k) ==
    [out |-> [i \in 1..k |-> RngOut(RngAfter(s, i))], state |-> s]
rand(s, k) ==
    [out |-> [i \in 1..k |-> RngOut(RngAfter(s, i))], state |-> RngAfter(s, k)]

\* the flat draws in the shape (N,3,3) and (N,3), C order
Shape33(N, d) ==
    [i \in 0..(N - 1) |-> [k \in Idx |-> [c \in Idx |-> d[9 * i + 3 * k + c + 1]]]]
Shape3(N, d) == [i \in 0..(N - 1) |-> [k \in Idx |-> d[3 * i + k + 1]]]
\* the float a draw level stands for
Uniform(u) == Frac(u, MaxDraw + 1)

\* Y = np.where(P>r,1,-1)
Labels_geq(N, p, r) ==
    [i \in 0..(N - 1) |-> [k \in Idx |->
        IF FLeq(Uniform(r[i][k]), p[i][k]) THEN 1 ELSE -1]]
Labels(N, p, r) ==
    [i \in 0..(N - 1) |-> [k \in Idx |->
        IF FLt(Uniform(r[i][k]), p[i][k]) THEN 1 ELSE -1]]

\* generate_data(N) run from generator state s
generate_data_same_state(N, s) ==
    LET d1 == rand(s, 9 * N)
        xs == get_strat_mats(N, Shape33(N, d1.out))
        ps == vpayoff_probs(xs)
        d2 == rand(s, 3 * N)
        r  == Shape3(N, d2.out)
    IN  [X |-> xs, Y |-> Labels(N, ps, r), P |-> ps, r |-> r,
         draws |-> d1.out \o d2.out, state |-> d2.state]
generate_data(N, s) ==
    LET d1 == rand(s, 9 * N)
        xs == get_strat_mats(N, Shape33(N, d1.out))
        ps == vpayoff_probs(xs)
        d2 == rand(d1.state, 3 * N)
        r  == Shape3(N, d2.out)
    IN  [X |-> xs, Y |-> Labels(N, ps, r), P |-> ps, r |-> r,
         draws |-> d1.out \o d2.out, state |-> d2.state]

\* entries of weights_model and of weights_generic
NWeightsModel   == (2 * layers + 2) * blocks * 9
NWeightsGeneric == (2 * layers + 1) * blocks * 3 * 3

Init ==
    /\ rng = SeedState
    /\ consumed = 0
    /\ calls = <<>>
    /\ stage = "script" /\ U = NoData /\ X = NoMat /\ P = NoVec
    /\ gen = NoGen
    /\ NoCircuit /\ NoEval

\* X_test = get_strat_mats(N_test)
CallGetStratMats ==
    /\ Len(calls) < MaxCalls
    /\ \E N \in 1..MaxN :
        LET d == rand(rng, 9 * N)
        IN  /\ calls' = Append(calls,
                  [fn |-> "get_strat_mats", n |-> N, pos |-> consumed,
                   draws |-> d.out,
                   X |-> get_strat_mats(N, Shape33(N, d.out)),
                   Y |-> <<>>, P |-> <<>>, r |-> <<>>])
            /\ rng' = d.state
            /\ consumed' = consumed + Len(d.out)
    /\ UNCHANGED <<dataVars, gen>>
    /\ UNCHANGED circVars
    /\ UNCHANGED evalVars

\* X, Y, P = generate_data(N)
CallGenerateData ==
    /\ Len(calls) < MaxCalls
    /\ \E N \in 1..MaxN :
        LET g == generate_data(N, rng)
        IN  /\ calls' = Append(calls,
                  [fn |-> "generate_data", n |-> N, pos |-> consumed,
                   draws |-> g.draws,
                   X |-> g.X, Y |-> g.Y, P |-> g.P, r |-> g.r])
            /\ rng' = g.state
            /\ consumed' = consumed + Len(g.draws)
    /\ UNCHANGED <<dataVars, gen>>
    /\ UNCHANGED circVars
    /\ UNCHANGED evalVars

\* weights_model = np.random.rand(2*layers+2,blocks,9)*2*np.pi
\* weights_generic = np.random.rand(2*layers+1,blocks,3,3)*2*np.pi
CallInitWeights ==
    /\ Len(calls) < MaxCalls
    /\ LET d == rand(rng, NWeightsModel + NWeightsGeneric)
       IN  /\ calls' = Append(calls,
                 [fn |-> "weights", n |-> 0, pos |-> consumed,
                  draws |-> d.out,
                  X |-> <<>>, Y |-> <<>>, P |-> <<>>, r |-> <<>>])
           /\ rng' = d.state
           /\ consumed' = consumed + Len(d.out)
    /\ UNCHANGED <<dataVars, gen>>
    /\ UNCHANGED circVars
    /\ UNCHANGED evalVars

Next == CallGetStratMats \/ CallGenerateData \/ CallInitWeights
Spec == Init /\ [][Next]_vars

(***************************************************************************)
(* One call of generate_data(N), statement by statement, under arbitrary   *)
(* outcomes of its two np.random.rand calls.  The outcomes examined:       *)
(* every row of the (N,3,3) array has one entry at level h and two at      *)
(* level c0, player k's entry h of sample i standing at action             *)
(* a[k] + i*k; the (N,3) array is any three levels r0, rotated i places    *)
(* for sample i.                                                           *)
(***************************************************************************)
Levels == 0..MaxDraw
GenDraws(N) ==
    { [i \in 0..(N - 1) |-> [k \in Idx |-> [c \in Idx |->
          IF c = (a[k] + i * k) % 3 THEN h ELSE c0]]] :
      a \in [Idx -> Idx], h \in Levels, c0 \in Levels }
GenUniforms(N) ==
    { [i \in 0..(N - 1) |-> [k \in Idx |-> r0[(k + i) % 3]]] : r0 \in [Idx -> Levels] }

InitGen ==
    /\ gen \in { [at |-> "start", N |-> N, X |-> <<>>, P |-> <<>>, r |-> <<>>,
                   Y |-> <<>>, ret |-> <<>>] : N \in 1..MaxN }
    /\ rng = 0 /\ consumed = 0 /\ calls = <<>>
    /\ stage = "generate_data" /\ U = NoData /\ X = NoMat /\ P = NoVec
    /\ NoCircuit /\ NoEval

GenFrame ==
    /\ UNCHANGED rngVars
    /\ UNCHANGED dataVars
    /\ UNCHANGED circVars
    /\ UNCHANGED evalVars

\* X = get_strat_mats(N)
GenStratMats ==
    /\ gen.at = "start"
    /\ \E u \in GenDraws(gen.N) :
          gen' = [gen EXCEPT !.at = "strats", !.X = get_strat_mats(gen.N, u)]
    /\ GenFrame

\* P = vpayoff_probs(X)
GenPayoffProbs ==
    /\ gen.at = "strats"
    /\ gen' = [gen EXCEPT !.at = "probs", !.P = vpayoff_probs(gen.X)]
    /\ GenFrame

\* r=np.random.rand(*P.shape)
GenRand ==
    /\ gen.at = "probs"
    /\ \E r \in GenUniforms(Cardinality(DOMAIN gen.P)) :
          gen' = [gen EXCEPT !.at = "drawn", !.r = r]
    /\ GenFrame

\* Y = np.where(P>r,1,-1)
GenWhere ==
    /\ gen.at = "drawn"
    /\ gen' = [gen EXCEPT !.at = "labelled", !.Y = Labels(gen.N, gen.P, gen.r)]
    /\ GenFrame

\* return X, Y, P
GenReturn ==
    /\ gen.at = "labelled"
    /\ gen' = [gen EXCEPT !.at = "returned", !.ret = <<gen.X, gen.Y, gen.P>>]
    /\ GenFrame

NextGen == GenStratMats \/ GenPayoffProbs \/ GenRand \/ GenWhere \/ GenReturn
SpecGen == InitGen /\ [][NextGen]_vars

(***************************************************************************)
(* Evaluation: the true marginals of the test set, the marginals of a      *)
(* model and their KL divergence.                                          *)
(*                                                                         *)
(* A sum of terms c*log(a) is [nan, terms]: terms is the set of <<a, c>>   *)
(* with c # 0 and a # 1, one for every a; nan says that the float result   *)
(* is NaN.  0*log(0) is 0*(-inf), which is NaN in float arithmetic.        *)
(***************************************************************************)
FloorDen == 100000000                 \* 10**(-8) is 1/FloorDen
Cutoff == Frac(1, FloorDen)

\* a/b of two floats without forming the cross products of numerators and
\* denominators before cancelling
FRatio(p, q) ==
    IF IsNaN(p) \/ IsNaN(q) \/ q[1] = 0 THEN NaN
    ELSE LET g1 == GCD(Abs(p[1]), Abs(q[1]))
             g2 == GCD(p[2], q[2])
             n  == (p[1] \div (IF g1 = 0 THEN 1 ELSE g1)) * (q[2] \div g2)
             d  == (p[2] \div g2) * (q[1] \div (IF g1 = 0 THEN 1 ELSE g1))
         IN  Frac(n, d)

LogZero == [nan |-> FALSE, terms |-> {}]
LogNaN  == [nan |-> TRUE, terms |-> {}]
\* c * log(a) for c >= 0, a >= 0
LogTerm(c, a) ==
    IF IsNaN(c) \/ IsNaN(a) THEN LogNaN
    ELSE IF a = FInt(0) THEN (IF c = FInt(0) THEN LogNaN
                              ELSE [nan |-> FALSE, terms |-> {<<a, c>>}])
    ELSE IF a = FInt(1) \/ c = FInt(0) THEN LogZero
    ELSE [nan |-> FALSE, terms |-> {<<a, c>>}]
LogCoef(u, a) ==
    IF \E t \in u.terms : t[1] = a THEN (CHOOSE t \in u.terms : t[1] = a)[2] ELSE FInt(0)
LogArgs(u) == {t[1] : t \in u.terms}
LogAdd(u, v) ==
    IF u.nan \/ v.nan THEN LogNaN
    ELSE [nan |-> FALSE,
          terms |-> {t \in {<<a, FAdd(LogCoef(u, a), LogCoef(v, a))>> :
                               a \in LogArgs(u) \cup LogArgs(v)} : t[2] # FInt(0)}]
LogDiv(u, n) ==
    IF u.nan THEN LogNaN
    ELSE [nan |-> FALSE, terms |-> {<<t[1], FDiv(t[2], FInt(n))>> : t \in u.terms}]

\* jnp.max of p and 10**(-8)
Floored(p) ==
    IF IsNaN(p) THEN NaN
    ELSE IF p[1] <= (p[2] - 1) \div FloorDen THEN Cutoff ELSE p

\* kl_div(p,q): p and q are indexed by 0 (outcome +1) and 1 (outcome -1)
kl_div_floor_q(p, q) ==
    LogAdd(LogTerm(Floored(q[0]), FRatio(Floored(q[0]), p[0])),
           LogTerm(Floored(q[1]), FRatio(Floored(q[1]), p[1])))
kl_div(p, q) ==
    LET pf == [y \in 0..1 |-> Floored(p[y])]
    IN  LogAdd(LogTerm(q[0], FRatio(q[0], pf[0])), LogTerm(q[1], FRatio(q[1], pf[1])))

kl_marginals(pr, pt) ==
    LogDiv(LogAdd(LogAdd(LogAdd(LogZero, kl_div(pr[0], pt[0])),
                         kl_div(pr[1], pt[1])),
                  kl_div(pr[2], pt[2])),
           3)
\* jax.vmap(kl_marginals,(0,0))
vkl_marginals(prs, pts) == [i \in DOMAIN prs |-> kl_marginals(prs[i], pts[i])]

RECURSIVE LogSumTo(_, _)
LogSumTo(f, n) == IF n = 0 THEN LogZero ELSE LogAdd(LogSumTo(f, n - 1), f[n - 1])

\* probs_test[:,:,0] = vpayoff_probs(X_test); probs_test[:,:,1] = 1-probs_test[:,:,0]
TrueProbs(xs) ==
    [i \in DOMAIN xs |-> [t \in Idx |-> [y \in 0..1 |->
        IF y = 0 THEN vpayoff_probs(xs)[i][t]
        ELSE FSub(FInt(1), vpayoff_probs(xs)[i][t])]]]

\* model_probs: probs[:,t,0] = (1+expvals[:,t])/2; probs[:,t,1] = (1-expvals[:,t])/2
model_probs_swapped(ev) ==
    [i \in DOMAIN ev |-> [t \in Idx |-> [y \in 0..1 |->
        IF y = 1 THEN FDiv(FAdd(FInt(1), ev[i][t]), FInt(2))
        ELSE FDiv(FSub(FInt(1), ev[i][t]), FInt(2))]]]
model_probs(ev) ==
    [i \in DOMAIN ev |-> [t \in Idx |-> [y \in 0..1 |->
        IF y = 0 THEN FDiv(FAdd(FInt(1), ev[i][t]), FInt(2))
        ELSE FDiv(FSub(FInt(1), ev[i][t]), FInt(2))]]]

\* get_av_test_kl: the probs it builds from the expectation values ev of the
\* model, and the value it returns
av_test_probs(ev) ==
    [i \in DOMAIN ev |-> [t \in Idx |-> [y \in 0..1 |->
        IF y = 0 THEN FDiv(FAdd(FInt(1), ev[i][t]), FInt(2))
        ELSE FDiv(FSub(FInt(1), ev[i][t]), FInt(2))]]]
get_av_test_kl(ev, pts) ==
    LogDiv(LogSumTo(vkl_marginals(av_test_probs(ev), pts), Cardinality(DOMAIN pts)),
           Cardinality(DOMAIN pts))

\* the test sets and the model outputs examined: one pure strategy matrix;
\* any three expectation values of [-1,1] on a grid
TestSets ==
    { [i \in {0} |-> [k \in Idx |-> [c \in Idx |-> IF c = a[k] THEN FInt(1) ELSE FInt(0)]]] :
      a \in [Idx -> Idx] }
ExpvalLevels == {Frac(k, MaxLevel) : k \in (0 - MaxLevel)..MaxLevel}

InitEval ==
    /\ X_test \in TestSets
    /\ probs_test = <<>> /\ probs = <<>> /\ kl = <<>>
    /\ lk = [at |-> "none"] /\ run = [at |-> "none"] /\ call = [at |-> "none"]
    /\ par = [at |-> "none"]
    /\ rng = 0 /\ consumed = 0 /\ calls = <<>>
    /\ stage = "test_set" /\ U = NoData /\ X = NoMat /\ P = NoVec
    /\ gen = NoGen
    /\ NoCircuit

\* probs_test = ... (the true probabilities for the test set)
EvalProbsTest ==
    /\ stage = "test_set"
    /\ probs_test' = TrueProbs(X_test)
    /\ stage' = "probs_test"
    /\ UNCHANGED <<X_test, probs, kl, lk, run, call, par>>
    /\ UNCHANGED <<rngVars, U, X, P, gen, circVars>>

\* kl = get_av_test_kl(model,weights,probs_test,X_test); the model returns
\* any expectation values
EvalAvTestKl ==
    /\ stage = "probs_test"
    /\ \E ev \in [DOMAIN X_test -> [Idx -> ExpvalLevels]] :
          /\ expvals' = ev
          /\ probs' = av_test_probs(ev)
          /\ kl' = get_av_test_kl(ev, probs_test)
    /\ stage' = "kl"
    /\ UNCHANGED <<X_test, probs_test, lk, run, call, par>>
    /\ UNCHANGED <<rngVars, U, X, P, gen, weights, x, tape, pc, psi>>

NextEval == EvalProbsTest \/ EvalAvTestKl
SpecEval == InitEval /\ [][NextEval]_vars

(***************************************************************************)
(* likelihood(weights,X,Y,model): the cost function.  The model is an      *)
(* argument: whatever callable is passed returns the expectation values,   *)
(* which float rounding can also put just outside [-1,1].                  *)
(***************************************************************************)
\* jnp.log of one entry: log(0) is -inf (kept as the term 1*log(0)), the log
\* of a negative number is NaN
JnpLog_floored(a) ==
    IF IsNaN(a) THEN LogNaN
    ELSE IF a = FInt(1) THEN LogZero
    ELSE [nan |-> FALSE, terms |-> {<<IF FLt(a, Cutoff) THEN Cutoff ELSE a, FInt(1)>>}]
JnpLog(a) ==
    IF IsNaN(a) \/ FLt(a, FInt(0)) THEN LogNaN
    ELSE IF a = FInt(1) THEN LogZero
    ELSE [nan |-> FALSE, terms |-> {<<a, FInt(1)>>}]
LogNeg(u) ==
    IF u.nan THEN LogNaN
    ELSE [nan |-> FALSE, terms |-> {<<t[1], FNeg(t[2])>> : t \in u.terms}]

\* jnp.sum over all entries of an N x 3 array of logs
RECURSIVE SumRows(_, _)
SumRows(lg, n) ==
    IF n = 0 THEN LogZero
    ELSE LogAdd(SumRows(lg, n - 1),
                LogAdd(LogAdd(lg[n - 1][0], lg[n - 1][1]), lg[n - 1][2]))

\* probs = (1+Y*expvals)/2
ObservedProbs(Yl, ev) ==
    [i \in DOMAIN ev |-> [t \in Idx |->
        FDiv(FAdd(FInt(1), FMul(FInt(Yl[i][t]), ev[i][t])), FInt(2))]]
likelihood_not_negated(Yl, ev) ==
    LogDiv(LogDiv(SumRows([i \in DOMAIN ev |-> [t \in Idx |->
                              JnpLog(ObservedProbs(Yl, ev)[i][t])]],
                          Cardinality(DOMAIN ev)),
                  Cardinality(DOMAIN ev)), 3)
likelihood(Yl, ev) ==
    LogNeg(LogDiv(LogDiv(SumRows([i \in DOMAIN ev |-> [t \in Idx |->
                                     JnpLog(ObservedProbs(Yl, ev)[i][t])]],
                                 Cardinality(DOMAIN ev)),
                         Cardinality(DOMAIN ev)), 3))

\* the labels and the model outputs examined: per sample one player's entry
\* differs from the other two
LlhLevels == {Frac(k, MaxLevel) : k \in (0 - MaxLevel - 1)..(MaxLevel + 1)}
LlhLabels(N) ==
    { [i \in 0..(N - 1) |-> [t \in Idx |-> IF t = (b + i) % 3 THEN y1 ELSE y0]] :
      y0 \in {1, -1}, y1 \in {1, -1}, b \in Idx }
LlhOutputs(N) ==
    { [i \in 0..(N - 1) |-> [t \in Idx |-> IF t = (a + i) % 3 THEN e1 ELSE e0]] :
      e0 \in LlhLevels, e1 \in LlhLevels, a \in Idx }

InitLlh ==
    /\ \E N \in 1..MaxN : \E Yl \in LlhLabels(N) :
          lk = [at |-> "likelihood", N |-> N, Y |-> Yl, expvals |-> <<>>,
                probs |-> <<>>, llh |-> <<>>, ret |-> <<>>, raised |-> FALSE]
    /\ run = [at |-> "none"] /\ call = [at |-> "none"] /\ par = [at |-> "none"]
    /\ X_test = <<>> /\ probs = <<>> /\ probs_test = <<>> /\ kl = <<>>
    /\ rng = 0 /\ consumed = 0 /\ calls = <<>>
    /\ stage = "likelihood" /\ U = NoData /\ X = NoMat /\ P = NoVec
    /\ gen = NoGen
    /\ NoCircuit

LlhFrame ==
    UNCHANGED <<rngVars, dataVars, gen, circVars, X_test, probs, probs_test, kl, run, call,
                par>>

\* expvals = model(weights,X)
LlhModel ==
    /\ lk.at = "likelihood"
    /\ \E ev \in LlhOutputs(lk.N) : lk' = [lk EXCEPT !.at = "expvals", !.expvals = ev]
    /\ LlhFrame
\* probs = (1+Y*expvals)/2
LlhProbs ==
    /\ lk.at = "expvals"
    /\ lk' = [lk EXCEPT !.at = "probs", !.probs = ObservedProbs(lk.Y, lk.expvals)]
    /\ LlhFrame
\* probs = jnp.log(probs)
LlhLog ==
    /\ lk.at = "probs"
    /\ lk' = [lk EXCEPT !.at = "log",
                         !.probs = [i \in DOMAIN lk.probs |-> [t \in Idx |->
                                       JnpLog(lk.probs[i][t])]]]
    /\ LlhFrame
\* llh = jnp.sum(probs)/len(X)/3
LlhSum ==
    /\ lk.at = "log"
    /\ lk' = [lk EXCEPT !.at = "llh",
                         !.llh = LogDiv(LogDiv(SumRows(lk.probs, lk.N), lk.N), 3)]
    /\ LlhFrame
\* return -llh
LlhReturn ==
    /\ lk.at = "llh"
    /\ lk' = [lk EXCEPT !.at = "return", !.ret = LogNeg(lk.llh)]
    /\ LlhFrame

NextLlh == LlhModel \/ LlhProbs \/ LlhLog \/ LlhSum \/ LlhReturn
SpecLlh == InitLlh /\ [][NextLlh]_vars

(***************************************************************************)
(* get_strat_mats and payoff_probs called with arbitrary arguments: any    *)
(* integer N, any 3 x 3 array of numbers.  np.random.rand raises           *)
(* ValueError for a negative dimension and returns an empty array for the  *)
(* dimension 0.                                                            *)
(***************************************************************************)
AnyMatrices == { [k \in Idx |-> [c \in Idx |-> FInt(u[k][c])]] : u \in Draws }

InitArgs ==
    /\ call \in { [fn |-> "get_strat_mats", at |-> "start", N |-> N, U |-> <<>>,
                    X |-> <<>>, raised |-> "none", ret |-> <<>>] : N \in (0 - 1)..MaxN }
               \cup
               { [fn |-> "payoff_probs", at |-> "start", N |-> 1, U |-> <<>>,
                    X |-> sm, raised |-> "none", ret |-> <<>>] : sm \in AnyMatrices }
    /\ lk = [at |-> "none"] /\ run = [at |-> "none"] /\ par = [at |-> "none"]
    /\ X_test = <<>> /\ probs = <<>> /\ probs_test = <<>> /\ kl = <<>>
    /\ rng = 0 /\ consumed = 0 /\ calls = <<>>
    /\ stage = "call" /\ U = NoData /\ X = NoMat /\ P = NoVec
    /\ gen = NoGen
    /\ NoCircuit

ArgsFrame ==
    UNCHANGED <<rngVars, dataVars, gen, circVars, X_test, probs, probs_test, kl, lk, run,
                par>>

\* X = np.random.rand(N,3,3)
ArgsRand ==
    /\ call.fn = "get_strat_mats" /\ call.at = "start"
    /\ IF call.N < 0
       THEN call' = [call EXCEPT !.at = "raised", !.raised = "ValueError"]
       ELSE \E u \in GenDraws(call.N) : call' = [call EXCEPT !.at = "drawn", !.U = u]
    /\ ArgsFrame
\* for i in range(N): for k in range(3): X[i,k]=X[i,k]/np.sum(X[i,k])
ArgsNormalise ==
    /\ call.fn = "get_strat_mats" /\ call.at = "drawn"
    /\ call' = [call EXCEPT !.at = "normalised", !.X = get_strat_mats(call.N, call.U)]
    /\ ArgsFrame
\* return X
ArgsReturn ==
    /\ call.fn = "get_strat_mats" /\ call.at = "normalised"
    /\ call' = [call EXCEPT !.at = "returned", !.ret = call.X]
    /\ ArgsFrame
\* payoff_probs(X)
ArgsPayoffProbs ==
    /\ call.fn = "payoff_probs" /\ call.at = "start"
    /\ call' = [call EXCEPT !.at = "returned", !.ret = payoff_probs(call.X)]
    /\ ArgsFrame

NextArgs == ArgsRand \/ ArgsNormalise \/ ArgsReturn \/ ArgsPayoffProbs
SpecArgs == InitArgs /\ [][NextArgs]_vars

(***************************************************************************)
(* The script from the first dataset to the end of training, statement by  *)
(* statement.  run holds the module-level names (X, Y, P, X_test,          *)
(* probs_test, weights_model, weights_generic, plot_model, ...) and the    *)
(* locals of the running optimise_model call (model, nstep, weights,       *)
(* opt_state, step, llh, grads, updates, kl, plot).                        *)
(*                                                                         *)
(* Arrays are held with the factor they were multiplied by, a power of     *)
(* scaling = pi/2 given by its exponent.  What the                         *)
(* external functions (the model, jax.value_and_grad, optax) return is     *)
(* kept as the application itself: a record of the function and its        *)
(* arguments, a dataset argument being named by the stream position and    *)
(* size that determine it and by its factor.                               *)
(***************************************************************************)
Unbound == [fn |-> "unbound"]
Array(vals, pos, factor) == [values |-> vals, pos |-> pos, factor |-> factor]
Ref(d) == [N |-> Cardinality(DOMAIN d.values), pos |-> d.pos, factor |-> d.factor]
\* X = scaling*jnp.array(X)
Scaled(d) == [d EXCEPT !.factor = d.factor + 1]

\* llh, grads = jax.value_and_grad(likelihood)(weights, X, Y, model)
value_and_grad_rescaling(r) ==
    [r EXCEPT !.llh   = [fn |-> "likelihood", weights |-> r.weights,
                         X |-> Ref(r.X), Y |-> Ref(r.Y), model |-> r.model],
              !.grads = [fn |-> "grad likelihood", weights |-> r.weights,
                         X |-> Ref(r.X), Y |-> Ref(r.Y), model |-> r.model],
              !.X = Scaled(r.X)]
value_and_grad(r) ==
    [r EXCEPT !.llh   = [fn |-> "likelihood", weights |-> r.weights,
                         X |-> Ref(r.X), Y |-> Ref(r.Y), model |-> r.model],
              !.grads = [fn |-> "grad likelihood", weights |-> r.weights,
                         X |-> Ref(r.X), Y |-> Ref(r.Y), model |-> r.model]]
\* updates, opt_state = optimizer.update(grads, opt_state, weights)
optimizer_update(r) ==
    [r EXCEPT !.updates   = [fn |-> "update.updates", grads |-> r.grads,
                             state |-> r.opt_state, weights |-> r.weights],
              !.opt_state = [fn |-> "update.state", grads |-> r.grads,
                             state |-> r.opt_state, weights |-> r.weights]]
\* weights = optax.apply_updates(weights, updates)
apply_updates(r) ==
    [r EXCEPT !.weights = [fn |-> "apply_updates", weights |-> r.weights,
                           updates |-> r.updates]]
\* kl = get_av_test_kl(model,weights,probs_test,X_test)
test_kl_before_update(r) ==
    [r EXCEPT !.kl = [fn |-> "get_av_test_kl", model |-> r.model,
                      weights |-> r.weights.weights,
                      probs_test |-> Ref(r.probs_test), X_test |-> Ref(r.X_test)]]
test_kl(r) ==
    [r EXCEPT !.kl = [fn |-> "get_av_test_kl", model |-> r.model, weights |-> r.weights,
                      probs_test |-> Ref(r.probs_test), X_test |-> Ref(r.X_test)]]
\* plot[0].append(step); plot[1].append(float(llh)); plot[2].append(float(kl))
append_plot(r) ==
    [r EXCEPT !.plot = << Append(r.plot[1], r.step), Append(r.plot[2], r.llh),
                          Append(r.plot[3], r.kl) >>]
\* return weights, llh, kl, plot
returned(r) ==
    IF r.llh = Unbound \/ r.kl = Unbound THEN Unbound
    ELSE << r.weights, r.llh, r.kl, r.plot >>

InitTrain ==
    /\ \E N1 \in 1..MaxN, N \in 1..MaxN, Nt \in 1..MaxN, nstep \in 0..MaxSteps :
          run = [at |-> "start", N1 |-> N1, N |-> N, N_test |-> Nt, nstep_arg |-> nstep,
                 X |-> Unbound, Y |-> Unbound, P |-> Unbound,
                 X_test |-> Unbound, probs_test |-> Unbound,
                 weights_model |-> Unbound, weights_generic |-> Unbound,
                 plot_model |-> Unbound, plot_generic |-> Unbound, out |-> Unbound,
                 model |-> "none", nstep |-> 0, weights |-> Unbound, opt_state |-> Unbound,
                 done |-> 0, step |-> Unbound, llh |-> Unbound, grads |-> Unbound,
                 updates |-> Unbound, kl |-> Unbound, plot |-> Unbound,
                 ret |-> Unbound, raised |-> "none"]
    /\ rng = SeedState /\ consumed = 0 /\ calls = <<>>
    /\ lk = [at |-> "none"] /\ call = [at |-> "none"] /\ par = [at |-> "none"]
    /\ X_test = <<>> /\ probs = <<>> /\ probs_test = <<>> /\ kl = <<>>
    /\ stage = "script" /\ U = NoData /\ X = NoMat /\ P = NoVec
    /\ gen = NoGen
    /\ NoCircuit

TrainFrame ==
    UNCHANGED <<calls, dataVars, gen, circVars, X_test, probs, probs_test, kl, lk, call,
                par>>
TrainData(N, to) ==
    LET g == generate_data(N, rng)
    IN  /\ run' = [run EXCEPT !.at = to,
                              !.X = Array(g.X, consumed, 0),
                              !.Y = Array(g.Y, consumed, 0),
                              !.P = Array(g.P, consumed, 0)]
        /\ rng' = g.state
        /\ consumed' = consumed + Len(g.draws)
        /\ TrainFrame

\* X, Y, P = generate_data(1500)
ScriptFirstData == run.at = "start" /\ TrainData(run.N1, "data1")
\* X_test = get_strat_mats(N_test); probs_test = ...
ScriptTestSet ==
    /\ run.at = "data1"
    /\ LET d  == rand(rng, 9 * run.N_test)
           xs == get_strat_mats(run.N_test, Shape33(run.N_test, d.out))
       IN  /\ run' = [run EXCEPT !.at = "test",
                                 !.X_test = Array(xs, consumed, 0),
                                 !.probs_test = Array(TrueProbs(xs), consumed, 0)]
           /\ rng' = d.state
           /\ consumed' = consumed + Len(d.out)
    /\ TrainFrame
\* X, Y, P = generate_data(N)
ScriptSecondData == run.at = "test" /\ TrainData(run.N, "data2")
\* scaling = jnp.pi/2; X = scaling*jnp.array(X)
ScriptScale ==
    /\ run.at = "data2"
    /\ run' = [run EXCEPT !.at = "scaled", !.X = Scaled(run.X)]
    /\ UNCHANGED <<rng, consumed>> /\ TrainFrame
\* weights_model = ...; weights_generic = ...
ScriptWeights ==
    /\ run.at = "scaled"
    /\ LET d == rand(rng, NWeightsModel + NWeightsGeneric)
       IN  /\ run' = [run EXCEPT !.at = "call model",
                         !.weights_model = [fn |-> "rand", pos |-> consumed,
                                            n |-> NWeightsModel],
                         !.weights_generic = [fn |-> "rand", pos |-> consumed + NWeightsModel,
                                              n |-> NWeightsGeneric]]
           /\ rng' = d.state
           /\ consumed' = consumed + Len(d.out)
    /\ TrainFrame

\* optimise_model(model,nstep,lr,weights) is entered: plot=[[],[],[]];
\* optimizer = optax.adam(lr); opt_state = optimizer.init(weights)
OptEnter ==
    /\ run.at \in {"call model", "call generic"}
    /\ LET m == IF run.at = "call model" THEN "vmodel" ELSE "vmodel_generic"
           w == IF run.at = "call model" THEN run.weights_model ELSE run.weights_generic
       IN  run' = [run EXCEPT !.at = "loop", !.model = m, !.nstep = run.nstep_arg,
                      !.weights = w,
                      !.opt_state = [fn |-> "init", weights |-> w],
                      !.plot = << <<>>, <<>>, <<>> >>,
                      !.done = 0, !.step = Unbound, !.llh = Unbound, !.grads = Unbound,
                      !.updates = Unbound, !.kl = Unbound, !.ret = Unbound]
    /\ UNCHANGED <<rng, consumed>> /\ TrainFrame
\* for step in steps: ...; llh, grads = jax.value_and_grad(likelihood)(...)
OptValueAndGrad ==
    /\ run.at = "loop" /\ run.done < run.nstep
    /\ run' = [value_and_grad(run) EXCEPT !.at = "grads", !.step = run.done]
    /\ UNCHANGED <<rng, consumed>> /\ TrainFrame
OptUpdate ==
    /\ run.at = "grads"
    /\ run' = [optimizer_update(run) EXCEPT !.at = "updates"]
    /\ UNCHANGED <<rng, consumed>> /\ TrainFrame
OptApply ==
    /\ run.at = "updates"
    /\ run' = [apply_updates(run) EXCEPT !.at = "applied"]
    /\ UNCHANGED <<rng, consumed>> /\ TrainFrame
OptTestKl ==
    /\ run.at = "applied"
    /\ run' = [test_kl(run) EXCEPT !.at = "kl"]
    /\ UNCHANGED <<rng, consumed>> /\ TrainFrame
OptPlot ==
    /\ run.at = "kl"
    /\ run' = [append_plot(run) EXCEPT !.at = "loop", !.done = run.done + 1]
    /\ UNCHANGED <<rng, consumed>> /\ TrainFrame
\* return weights, llh, kl, plot: reading a local that was never assigned
\* raises UnboundLocalError
OptReturn ==
    /\ run.at = "loop" /\ run.done = run.nstep
    /\ IF returned(run) = Unbound
       THEN run' = [run EXCEPT !.at = "raised", !.raised = "UnboundLocalError"]
       ELSE run' = [run EXCEPT !.at = "returned", !.ret = returned(run)]
    /\ UNCHANGED <<rng, consumed>> /\ TrainFrame
\* weights_model, llh, kl, plot_model = optimise_model(vmodel, ...), and the
\* same for the generic model
ScriptAssign ==
    /\ run.at = "returned"
    /\ run' = IF run.model = "vmodel"
              THEN [run EXCEPT !.at = "call generic", !.weights_model = run.ret[1],
                               !.plot_model = run.ret[4],
                               !.out = << run.ret[2], run.ret[3] >>]
              ELSE [run EXCEPT !.at = "end", !.weights_generic = run.ret[1],
                               !.plot_generic = run.ret[4],
                               !.out = << run.ret[2], run.ret[3] >>]
    /\ UNCHANGED <<rng, consumed>> /\ TrainFrame

NextTrain ==
    \/ ScriptFirstData \/ ScriptTestSet \/ ScriptSecondData \/ ScriptScale
    \/ ScriptWeights \/ OptEnter \/ OptValueAndGrad \/ OptUpdate \/ OptApply
    \/ OptTestKl \/ OptPlot \/ OptReturn \/ ScriptAssign
SpecTrain == InitTrain /\ [][NextTrain]_vars

(***************************************************************************)
(* The per-sample statements of dataset generation and evaluation          *)
(* executed in any order.  The two np.random.rand calls are bulk           *)
(* statements on the sequential generator: the (N,3,3) array is drawn      *)
(* first, the (N,3) array after it.  Everything else works on one sample   *)
(* (or one row of one sample) at a time: the in-place normalisation of     *)
(* get_strat_mats, the vmapped payoff_probs, np.where, the vmapped model   *)
(* and kl_marginals, and the elementwise part of likelihood.  What the     *)
(* model returns is kept as the application itself.                        *)
(***************************************************************************)
\* X[i,k]=X[i,k]/np.sum(X[i,k]) on the array xs
NormaliseAt_other_row(xs, i, k) ==
    [xs EXCEPT ![i][k] = [c \in Idx |-> FDiv(xs[i][k][c], Sum3F(xs[i][(k + 1) % 3]))]]
NormaliseAt(xs, i, k) ==
    [xs EXCEPT ![i][k] = [c \in Idx |-> FDiv(xs[i][k][c], Sum3F(xs[i][k]))]]
\* vmodel(weights, X)[i]
ModelOutput(sm) == [fn |-> "model", weights |-> "weights", x |-> sm]
\* the entries of sample i in likelihood and in vkl_marginals
LlhTerms(y, e) == [fn |-> "log((1+Y*expvals)/2)", Y |-> y, expvals |-> e]
KlTerm(e, pt) ==
    [fn |-> "kl_marginals", probs |-> [fn |-> "(1+-expvals)/2", expvals |-> e],
     probs_test |-> pt]
\* the generator states a call can start from
RngStarts == {RngAfter(SeedState, 12 * j) : j \in 0..MaxCalls}
NotYet == <<>>

InitPar ==
    /\ \E N \in 1..MaxN, s \in RngStarts :
          LET d == rand(s, 9 * N)
          IN  /\ par = [at |-> "batch", N |-> N,
                        U |-> Shape33(N, d.out), r |-> NotYet,
                        X |-> [i \in 0..(N - 1) |-> [k \in Idx |-> [c \in Idx |->
                                 Uniform(Shape33(N, d.out)[i][k][c])]]],
                        rows |-> {},
                        did |-> [i \in 0..(N - 1) |-> "nothing"],
                        P |-> [i \in 0..(N - 1) |-> NotYet],
                        Y |-> [i \in 0..(N - 1) |-> NotYet],
                        E |-> [i \in 0..(N - 1) |-> NotYet],
                        L |-> [i \in 0..(N - 1) |-> NotYet],
                        K |-> [i \in 0..(N - 1) |-> NotYet]]
              /\ rng = d.state
              /\ consumed = 9 * N
    /\ calls = <<>>
    /\ lk = [at |-> "none"] /\ run = [at |-> "none"] /\ call = [at |-> "none"]
    /\ X_test = <<>> /\ probs = <<>> /\ probs_test = <<>> /\ kl = <<>>
    /\ stage = "batch" /\ U = NoData /\ X = NoMat /\ P = NoVec
    /\ gen = NoGen
    /\ NoCircuit

ParFrame ==
    UNCHANGED <<calls, dataVars, gen, circVars, X_test, probs, probs_test, kl, lk, run, call>>

\* X[i,k]=X[i,k]/np.sum(X[i,k]), for any row not yet normalised
ParNormalise ==
    /\ \E i \in 0..(par.N - 1), k \in Idx :
          /\ <<i, k>> \notin par.rows
          /\ par' = [par EXCEPT !.X = NormaliseAt(par.X, i, k),
                                !.rows = par.rows \cup {<<i, k>>}]
    /\ UNCHANGED <<rng, consumed>> /\ ParFrame
\* vpayoff_probs(X)[i], for any sample whose rows are normalised
ParPayoffProbs ==
    /\ \E i \in 0..(par.N - 1) :
          /\ par.did[i] = "nothing" /\ \A k \in Idx : <<i, k>> \in par.rows
          /\ par' = [par EXCEPT !.P[i] = payoff_probs(par.X[i]), !.did[i] = "P"]
    /\ UNCHANGED <<rng, consumed>> /\ ParFrame
\* r=np.random.rand(*P.shape)
ParRand ==
    /\ par.r = NotYet
    /\ LET d == rand(rng, 3 * par.N)
       IN  /\ par' = [par EXCEPT !.r = Shape3(par.N, d.out)]
           /\ rng' = d.state
           /\ consumed' = consumed + 3 * par.N
    /\ ParFrame
\* np.where(P>r,1,-1)[i]
ParLabel ==
    /\ par.r # NotYet
    /\ \E i \in 0..(par.N - 1) :
          /\ par.did[i] = "P"
          /\ par' = [par EXCEPT !.did[i] = "Y",
                       !.Y[i] = Labels(1, [j \in {0} |-> par.P[i]],
                                          [j \in {0} |-> par.r[i]])[0]]
    /\ UNCHANGED <<rng, consumed>> /\ ParFrame
\* expvals[i], and from it sample i's entries of likelihood and its KL term
ParEvaluate ==
    /\ \E i \in 0..(par.N - 1) :
          /\ par.did[i] = "Y"
          /\ par' = [par EXCEPT !.did[i] = "K",
                       !.E[i] = ModelOutput(par.X[i]),
                       !.L[i] = LlhTerms(par.Y[i], ModelOutput(par.X[i])),
                       !.K[i] = KlTerm(ModelOutput(par.X[i]),
                                       TrueProbs([j \in {0} |-> par.X[i]])[0])]
    /\ UNCHANGED <<rng, consumed>> /\ ParFrame

NextPar == ParNormalise \/ ParPayoffProbs \/ ParRand \/ ParLabel \/ ParEvaluate
SpecPar == InitPar /\ [][NextPar]_vars

(***************************************************************************)
(* Properties of the data generator.                                       *)
(***************************************************************************)
Zero == FInt(0)
One  == FInt(1)
Half == Frac(1, 2)

\* a StrategyMatrix: every row a probability distribution over the actions
ValidRow(row) ==
    /\ \A c \in Idx : FLeq(Zero, row[c])
    /\ Sum3F(row) = One
ValidStrategy(sm) == \A k \in Idx : ValidRow(sm[k])
\* every player plays one action with certainty
PureStrategy(sm) == \A k \in Idx : \A c \in Idx : sm[k][c] \in {Zero, One}
Plays(sm, k, a) == sm[k][a] = One

ExpVal(p) == FSub(FMul(FInt(2), p), One)      \* 2*P - 1

\* C2: for every valid strategy matrix the payoff expectations 2*p_k - 1
\* derived from payoff_probs sum to zero over the three players, and so do
\* the bilinear scores n_0 + n_1 + n_2.
C2_ZeroSum ==
    (stage = "probs" /\ ValidStrategy(X)) =>
        /\ Sum3F([k \in Idx |-> ExpVal(P[k])]) = Zero
        /\ Sum3F(Scores(X)) = Zero
C2_Witness ==
    /\ stage = "probs" /\ ValidStrategy(X) /\ ~PureStrategy(X)
    /\ P[0] # Half /\ P[1] # Half /\ P[2] # Half

\* C5: the entries of A01, A02, A12 are the game rules: cyclic dominance
\* between different actions, and on equal actions +1 for the first
\* player's special action, -1 for the second player's, 0 otherwise.
C5_RulesEncoded ==
    /\ \A i \in Idx, j \in Idx :
        /\ A01[i][j] = GameRule(0, 1, i, j)
        /\ A02[i][j] = GameRule(0, 2, i, j)
        /\ A12[i][j] = GameRule(1, 2, i, j)
    /\ (stage = "probs" /\ PureStrategy(X) /\ ValidStrategy(X)) =>
        \A a0 \in Idx, a1 \in Idx, a2 \in Idx :
            (Plays(X, 0, a0) /\ Plays(X, 1, a1) /\ Plays(X, 2, a2)) =>
                /\ P[0] = ToProb(FInt(GameRule(0, 1, a0, a1) + GameRule(0, 2, a0, a2)))
                /\ P[1] = ToProb(FInt(GameRule(1, 2, a1, a2) - GameRule(0, 1, a0, a1)))
                /\ P[2] = ToProb(FInt(0 - GameRule(0, 2, a0, a2) - GameRule(1, 2, a1, a2)))
C5_Witness ==
    /\ stage = "probs" /\ PureStrategy(X) /\ ValidStrategy(X)
    /\ Plays(X, 0, 1) /\ Plays(X, 1, 1) /\ Plays(X, 2, 1)
    /\ P[0] = ToProb(FInt(GameRule(0, 1, 1, 1) + GameRule(0, 2, 1, 1)))
    /\ P[0] = Frac(1, 4)

C7_RowsNormalised ==
    stage # "drawn" =>
        /\ ValidStrategy(X)
        /\ \A k \in Idx : \A c \in Idx :
              FMul(X[k][c], FInt(RowSum(U[k]))) = FInt(U[k][c])

\* C8: for every valid strategy matrix each payoff probability lies in
\* [0,1], each bilinear score n_k lying in [-2,2].
C8_ProbRange ==
    (stage = "probs" /\ ValidStrategy(X)) =>
        \A k \in Idx :
            /\ FLeq(Zero, P[k]) /\ FLeq(P[k], One)
            /\ FLeq(FInt(-2), Scores(X)[k]) /\ FLeq(Scores(X)[k], FInt(2))
            /\ P[k] = FDiv(FAdd(Scores(X)[k], FInt(2)), FInt(4))
C8_Witness ==
    /\ stage = "probs" /\ ValidStrategy(X)
    /\ \E k \in Idx : P[k] = One
    /\ \E k \in Idx : P[k] = Zero

\* C13: for a pure-strategy matrix, player k playing action a_k, payoff_probs
\* gives p_k = (n_k/2 + 1)/2 with n_k the sum of the two rule-matrix entries
\* of player k against the other two players; for the identity matrix
\* n_0 = A01[0,1] + A02[0,2] = 0 and the result is (1/2, 1/2, 1/2).
PureScore(k, a) ==
    CASE k = 0 -> A01[a[0]][a[1]] + A02[a[0]][a[2]]
      [] k = 1 -> A10[a[1]][a[0]] + A12[a[1]][a[2]]
      [] k = 2 -> A20[a[2]][a[0]] + A21[a[2]][a[1]]
IdentityMatrix == [k \in Idx |-> [c \in Idx |-> IF c = k THEN One ELSE Zero]]
C13_PureStrategyProbs ==
    (stage = "probs" /\ PureStrategy(X) /\ ValidStrategy(X)) =>
        /\ \A a \in [Idx -> Idx] :
              (\A k \in Idx : Plays(X, k, a[k])) =>
                  \A k \in Idx :
                      P[k] = FDiv(FAdd(FDiv(FInt(PureScore(k, a)), FInt(2)), One), FInt(2))
        /\ X = IdentityMatrix =>
              /\ A01[0][1] + A02[0][2] = 0
              /\ P = [k \in Idx |-> Half]
C13_Witness ==
    /\ stage = "probs" /\ X = IdentityMatrix
    /\ P = [k \in Idx |-> Half]
    /\ A01[0][1] = -1 /\ A02[0][2] = 1

C12_AlignedByIndex ==
    gen.at = "returned" =>
        /\ \A j \in 1..3 : DOMAIN gen.ret[j] = 0..(gen.N - 1)
        /\ \A i \in 0..(gen.N - 1) :
            /\ gen.ret[3][i] = payoff_probs(gen.ret[1][i])
            /\ gen.ret[2][i] =
                  Labels(1, [j \in {0} |-> gen.ret[3][i]], [j \in {0} |-> gen.r[i]])[0]
C12_Witness ==
    /\ gen.at = "returned" /\ gen.N >= 2
    /\ gen.ret[1][0] # gen.ret[1][1]
    /\ gen.ret[3][0] # gen.ret[3][1]
    /\ gen.ret[2][0] # gen.ret[2][1]
    /\ ValidStrategy(gen.ret[1][1])

(***************************************************************************)
(* Properties of generation on the module-level generator.                 *)
(***************************************************************************)
\* the k draws that follow the first p draws of the seeded stream
Stream(p, k) == [i \in 1..k |-> RngOut(RngAfter(SeedState, p + i))]

RECURSIVE DrawsBefore(_)
DrawsBefore(i) == IF i <= 1 THEN 0 ELSE DrawsBefore(i - 1) + Len(calls[i - 1].draws)

DataCalls == {i \in 1..Len(calls) : calls[i].fn = "generate_data"}

CallDraws(c) ==
    CASE c.fn = "get_strat_mats" -> 9 * c.n
      [] c.fn = "generate_data"  -> 12 * c.n
      [] c.fn = "weights"        -> 9 * blocks * (2 * layers + 2) + 9 * blocks * (2 * layers + 1)
PairAdd(a, b) == <<a[1] + b[1], a[2] + b[2]>>
LenPrep == Len(input_prep(weights[2 * layers + 1][0]))

\* C1: for every weight tensor and every strategy matrix the three
\* expectation values <Z_0>, <Z_1>, <Z_2> the biased model returns sum to
\* zero (sum_k (2*p_k - 1) = 0 with p_k = (1 + E_k)/2).
C1_ModelZeroSum ==
    expvals # NoExpvals =>
        /\ PairAdd(PairAdd(expvals[0].num, expvals[1].num), expvals[2].num) = <<0, 0>>
        /\ \A k \in Wires : expvals[k].den = NormPsi(psi) /\ expvals[k].den # <<0, 0>>
C1_Witness ==
    /\ expvals # NoExpvals
    /\ expvals[0].num # <<0, 0>>
    /\ expvals[2].num # <<0, 0>>
    /\ weights[0][0][6] % 2 = 1
    /\ Feature2(x)[0] * Feature2(x)[1] # 0

RECURSIVE ApplySeq(_, _)
ApplySeq(gs, v) == IF gs = <<>> THEN v ELSE ApplySeq(Tail(gs), ApplyRaw(v, Head(gs)))
\* a unitary commutes with Z_0+Z_1+Z_2 exactly when it maps every basis
\* state into the span of the basis states with the same number of ones
CommutesWithZSum(gs) ==
    \A b \in Basis :
        \A out \in {ApplySeq(gs, BasisKet(b))} :
            \A s \in Basis : Weight(s) # Weight(b) => At(out, s) = ZZero
Last(i) == IF i < Len(tape) THEN i ELSE Len(tape)
\* the operations queued together with operation i by one swap_rot call
GroupAt(i) ==
    IF tape[i].word = "XX" THEN SubSeq(tape, i, Last(i + 2))
    ELSE IF tape[i].word = "YY" THEN SubSeq(tape, i - 1, Last(i + 1))
    ELSE IF tape[i].word = "ZZ" /\ tape[i - 1].word = "YY" THEN SubSeq(tape, i - 2, i)
    ELSE <<tape[i]>>
IsSwapRot(gs) ==
    /\ Len(gs) = 3
    /\ \A j \in 1..3 : gs[j].name = "PauliRot"
    /\ gs[1].word = "XX" /\ gs[2].word = "YY" /\ gs[3].word = "ZZ"
    /\ gs[1].wires = gs[2].wires /\ gs[2].wires = gs[3].wires
    /\ gs[1].theta = gs[2].theta /\ gs[2].theta = gs[3].theta

\* C3: every operation applied inside the bias-invariant layer is a Z
\* rotation of one qubit, a ZZ rotation of a pair, or one of the XX, YY, ZZ
\* rotations swap_rot applies to one wire pair with one angle; the unitary
\* of each (of the swap_rot triple as a whole, checked when its last
\* rotation has been applied) commutes with Z_0+Z_1+Z_2.
C3_GeneratorsCommute ==
    (pc > LenPrep) =>
        /\ \/ tape[pc].name = "RZ"
           \/ tape[pc].name = "PauliRot" /\ tape[pc].word = "ZZ"
           \/ /\ tape[pc].name = "PauliRot" /\ tape[pc].word \in {"XX", "YY"}
              /\ IsSwapRot(GroupAt(pc))
        /\ tape[pc].word \notin {"XX", "YY"} => CommutesWithZSum(GroupAt(pc))
C3_Witness ==
    /\ pc > LenPrep
    /\ tape[pc].word = "ZZ" /\ tape[pc].theta % 2 = 1
    /\ IsSwapRot(GroupAt(pc))
    /\ CommutesWithZSum(GroupAt(pc))
    /\ ~CommutesWithZSum(<<tape[pc - 1]>>)
    /\ ~CommutesWithZSum(<<tape[pc - 2]>>)

\* C4: for every alpha the state input_prep prepares from |000> has
\* <Z_0> + <Z_1> + <Z_2> = 0: qubit 2 gets a Hadamard only and contributes
\* 0, qubits 0 and 1 get a Hadamard and RY rotations whose angles differ by
\* exactly pi, and their contributions are equal and opposite.
C4_InputPrepZeroSum ==
    (stage = "model" /\ pc = LenPrep) =>
        /\ ExpvalZ(psi, 2) = <<0, 0>>
        /\ PairAdd(ExpvalZ(psi, 0), ExpvalZ(psi, 1)) = <<0, 0>>
        /\ \A i \in 1..3 : tape[i].name = "Hadamard" /\ tape[i].wires = <<i - 1>>
        /\ tape[4].name = "RY" /\ tape[4].wires = <<0>>
        /\ tape[5].name = "RY" /\ tape[5].wires = <<1>>
        /\ tape[5].theta - tape[4].theta = Pi
        /\ tape[4].theta = weights[2 * layers + 1][0][0]
C4_Witness ==
    /\ stage = "model" /\ pc = LenPrep
    /\ ExpvalZ(psi, 0) # <<0, 0>>
    /\ ExpvalZ(psi, 1) # <<0, 0>>

(***************************************************************************)
(* The order of the operations of the biased model.  The tape is cut into  *)
(* segments: segment 1 is the input preparation, segments 2, 4, ... are    *)
(* trainable blocks and segments 3, 5, ... data encodings.                 *)
(***************************************************************************)
NumSegments == 4 * layers + 2
SegKind(j) ==
    IF j = 1 THEN "input_prep"
    ELSE CASE (j - 2) % 4 = 0 -> "param_unitary"
           [] (j - 2) % 4 = 1 -> "data_encoding"
           [] (j - 2) % 4 = 2 -> "param_unitary"
           [] (j - 2) % 4 = 3 -> "data_encoding_pairs"
SegLen(j) ==
    CASE SegKind(j) = "input_prep" -> 5
      [] SegKind(j) = "param_unitary" -> 15 * blocks
      [] OTHER -> 3
RECURSIVE SegStart(_)
SegStart(j) == IF j = 1 THEN 1 ELSE SegStart(j - 1) + SegLen(j - 1)
\* the number of trainable blocks before segment j
SliceOf(j) == (j - 2) \div 2

IsGate(g, name, word, ws) == g.name = name /\ g.word = word /\ g.wires = ws
IsInputPrepAt(t, s) ==
    /\ \A q \in Wires : IsGate(t[s + q], "Hadamard", "", <<q>>)
    /\ IsGate(t[s + 3], "RY", "", <<0>>)
    /\ IsGate(t[s + 4], "RY", "", <<1>>)
IsSwapRotAt(t, s, theta, ws) ==
    /\ IsGate(t[s], "PauliRot", "XX", ws) /\ t[s].theta = theta
    /\ IsGate(t[s + 1], "PauliRot", "YY", ws) /\ t[s + 1].theta = theta
    /\ IsGate(t[s + 2], "PauliRot", "ZZ", ws) /\ t[s + 2].theta = theta
IsParamUnitaryAt(t, s, w) ==
    \A b \in 0..(blocks - 1) :
        LET o == s + 15 * b
        IN  /\ \A q \in Wires : IsGate(t[o + q], "RZ", "", <<q>>) /\ t[o + q].theta = w[b][q]
            /\ IsGate(t[o + 3], "PauliRot", "ZZ", <<0, 1>>) /\ t[o + 3].theta = w[b][3]
            /\ IsGate(t[o + 4], "PauliRot", "ZZ", <<0, 2>>) /\ t[o + 4].theta = w[b][4]
            /\ IsGate(t[o + 5], "PauliRot", "ZZ", <<1, 2>>) /\ t[o + 5].theta = w[b][5]
            /\ IsSwapRotAt(t, o + 6, w[b][6], <<0, 1>>)
            /\ IsSwapRotAt(t, o + 9, w[b][7], <<1, 2>>)
            /\ IsSwapRotAt(t, o + 12, w[b][8], <<0, 2>>)
IsDataEncodingAt(t, s) ==
    \A q \in Wires : IsGate(t[s + q], "RZ", "", <<q>>) /\ t[s + q].theta = x[q][q]
IsDataEncodingPairsAt(t, s) ==
    \A i \in 0..2 : t[s + i].name = "PauliRot" /\ t[s + i].word = "ZZ"
                     /\ Len(t[s + i].wires) = 2
SegmentOk(j) ==
    CASE SegKind(j) = "input_prep" -> IsInputPrepAt(tape, SegStart(j))
      [] SegKind(j) = "param_unitary" -> IsParamUnitaryAt(tape, SegStart(j), weights[SliceOf(j)])
      [] SegKind(j) = "data_encoding" -> IsDataEncodingAt(tape, SegStart(j))
      [] SegKind(j) = "data_encoding_pairs" -> IsDataEncodingPairsAt(tape, SegStart(j))
SegmentsOf(kinds) == {j \in 1..NumSegments : SegKind(j) \in kinds}

\* C14: the biased model applies input_prep first, then for each of the
\* `layers` iterations a trainable block, the single-qubit encoding of x1,
\* a trainable block, the pair encoding of x2, then one final trainable
\* block, and reads out Z of qubits 0, 1, 2 in player order after the last
\* operation; trainable and encoding blocks alternate, 2*layers+1 trainable
\* and 2*layers encoding blocks in all.
C14_FixedOrder ==
    stage = "model" =>
        /\ Len(tape) = SegStart(NumSegments) + SegLen(NumSegments) - 1
        /\ \A j \in 1..NumSegments : SegmentOk(j)
        /\ SegKind(2) = "param_unitary" /\ SegKind(NumSegments) = "param_unitary"
        /\ \A j \in 2..(NumSegments - 1) :
              (SegKind(j) = "param_unitary") # (SegKind(j + 1) = "param_unitary")
        /\ Cardinality(SegmentsOf({"param_unitary"})) = 2 * layers + 1
        /\ Cardinality(SegmentsOf({"data_encoding", "data_encoding_pairs"})) = 2 * layers
        /\ pc <= Len(tape)
        /\ expvals # NoExpvals =>
              /\ pc = Len(tape)
              /\ DOMAIN expvals = Wires
              /\ \A k \in Wires : expvals[k].num = ExpvalZ(psi, k)
C14_Witness ==
    /\ stage = "model" /\ expvals # NoExpvals
    /\ pc = 5 + 15 * blocks * (2 * layers + 1) + 3 * 2 * layers
    /\ weights[0] # weights[1]
    /\ \E q \in Wires : x[q][q] # weights[0][0][q] /\ x[q][q] # weights[1][0][q]
    /\ expvals[0].num # expvals[1].num

\* the features as the claim states them
DiagFeature(d, k) == d[k][k]
DiffFeature(d, k) == d[k][(k + 1) % 3] - d[k][(k + 2) % 3]
QubitPairs == {<<0, 1>>, <<1, 2>>, <<0, 2>>}

\* C15: the data features are x1[k] = X[k,k] and
\* x2[k] = X[k,(k+1) mod 3] - X[k,(k+2) mod 3]; data_encoding rotates qubit
\* k about Z by x1[k], and data_encoding_pairs applies a ZZ rotation of
\* angle x2[a]*x2[b] to each of the three qubit pairs (a,b), each pair once.
C15_DataFeatures ==
    stage = "model" =>
        /\ \A k \in Idx : /\ Feature1(x)[k] = DiagFeature(x, k)
                           /\ Feature2(x)[k] = DiffFeature(x, k)
        /\ \A j \in SegmentsOf({"data_encoding"}) :
              \A k \in Wires :
                  LET g == tape[SegStart(j) + k]
                  IN  g.name = "RZ" /\ g.wires = <<k>> /\ g.theta = DiagFeature(x, k)
        /\ \A j \in SegmentsOf({"data_encoding_pairs"}) :
              /\ \A i \in 0..2 :
                    LET g == tape[SegStart(j) + i]
                    IN  /\ g.name = "PauliRot" /\ g.word = "ZZ"
                        /\ g.wires \in QubitPairs
                        /\ g.theta = DiffFeature(x, g.wires[1]) * DiffFeature(x, g.wires[2])
              /\ \A pr \in QubitPairs :
                    Cardinality({i \in 0..2 : tape[SegStart(j) + i].wires = pr}) = 1
C15_Witness ==
    /\ stage = "model" /\ pc = SegStart(5) + 2
    /\ tape[pc].name = "PauliRot" /\ tape[pc].wires = <<0, 2>>
    /\ tape[pc].theta = -1 /\ tape[pc - 1].theta = 0
    /\ DiffFeature(x, 0) = 1 /\ DiffFeature(x, 2) = -1 /\ DiffFeature(x, 1) = 0
    /\ DiagFeature(x, 1) = 1 /\ tape[SegStart(3) + 1].theta = 1

(***************************************************************************)
(* The generic model against the biased model.  The skeleton of a tape     *)
(* keeps its data-encoding operations and puts one mark in place of every  *)
(* trainable block.                                                        *)
(***************************************************************************)
TrainableMark == [name |-> "trainable", word |-> "", theta |-> 0, wires |-> <<>>]
GenericSkeleton(t) ==
    [i \in 1..Len(t) |->
        IF t[i].name = "StronglyEntanglingLayers" THEN TrainableMark ELSE t[i]]
BiasedSkeleton(t) ==
    Concat([j \in 0..(NumSegments - 2) |->
               IF SegKind(j + 2) = "param_unitary" THEN << TrainableMark >>
               ELSE SubSeq(t, SegStart(j + 2), SegStart(j + 2) + SegLen(j + 2) - 1)],
           NumSegments - 1)
TemplatesBefore(i) ==
    Cardinality({n \in 1..(i - 1) : tape[n].name = "StronglyEntanglingLayers"})

\* the weight tensors of the biased model it is compared with: those whose
\* first angle is the first angle of the generic weights
BiasedCounterparts == {w \in WeightTensors : w[0][0][0] = weights[0][0][0][0]}

\* C16: for every X, generic_layer and bias_inv_layer compute the same
\* features x1 and x2 and issue the same data_encoding and
\* data_encoding_pairs operations at the same places between the trainable
\* blocks; the generic model differs in its trainable block (one
\* StronglyEntanglingLayers per block) and in having no input preparation.
C16_SameDataEncoding ==
    stage = "generic_model" =>
        /\ GenericFeature1(x) = Feature1(x)
        /\ GenericFeature2(x) = Feature2(x)
        /\ tape[1].name = "StronglyEntanglingLayers"
        /\ \A i \in 1..Len(tape) :
              tape[i].name = "StronglyEntanglingLayers" =>
                  /\ tape[i].theta = weights[TemplatesBefore(i)]
                  /\ tape[i].wires = <<0, 1, 2>>
        /\ \A wb \in BiasedCounterparts :
              \A bt \in {model(wb, x)} :
                  /\ IsInputPrepAt(bt, 1)
                  /\ \A j \in SegmentsOf({"param_unitary"}) :
                        IsParamUnitaryAt(bt, SegStart(j), wb[SliceOf(j)])
                  /\ Len(bt) = SegStart(NumSegments) + SegLen(NumSegments) - 1
                  /\ BiasedSkeleton(bt) = GenericSkeleton(tape)
C16_Witness ==
    /\ stage = "generic_model" /\ expvals # NoExpvals /\ pc = Len(tape)
    /\ Len(tape) = 2 * layers + 1 + 3 * 2 * layers
    /\ PairAdd(PairAdd(expvals[0].num, expvals[1].num), expvals[2].num) # <<0, 0>>
    /\ \E i \in 1..Len(tape) : tape[i].name = "PauliRot" /\ tape[i].theta # 0
    /\ \E i \in 1..Len(tape) : tape[i].name = "RZ" /\ tape[i].theta # 0

(***************************************************************************)
(* The parameters of the two models.                                       *)
(***************************************************************************)
Range(f) == {f[i] : i \in DOMAIN f}
Times(f, e) == Cardinality({i \in DOMAIN f : f[i] = e})
\* the angles the queued operations got from the weight tensor, one for
\* every indexing in program order: both RY angles of input_prep, and of
\* every trainable block its three RZ and three ZZ angles and the angle of
\* each of its three swap_rot calls
BlockThetas(s) ==
    Concat([b \in 0..(blocks - 1) |->
               [n \in 1..9 |-> IF n <= 6 THEN tape[s + 15 * b + n - 1].theta
                                ELSE tape[s + 15 * b + 6 + 3 * (n - 7)].theta]],
           blocks)
ModelThetas ==
    << tape[4].theta, tape[5].theta - Pi >>
    \o Concat([n \in 0..(2 * layers) |-> BlockThetas(SegStart(2 * n + 2))], 2 * layers + 1)
TemplateAt(n) == CHOOSE i \in 1..Len(tape) :
    tape[i].name = "StronglyEntanglingLayers" /\ TemplatesBefore(i) = n
AlphaEntry == <<2 * layers + 1, 0, 0>>

\* C17 as claimed: one evaluation of the biased model reads
\* 9*blocks*(2*layers+1) + 1 = 46 distinct entries of its weight tensor,
\* each exactly once, and the generic model reads 9*blocks*(2*layers+1) = 45.
C17_EachEntryReadOnce ==
    /\ stage = "model" =>
          /\ Cardinality(Range(model_reads)) = 9 * blocks * (2 * layers + 1) + 1
          /\ \A e \in Range(model_reads) : Times(model_reads, e) = 1
          /\ ModelThetas = [i \in DOMAIN model_reads |->
                  weights[model_reads[i][1]][model_reads[i][2]][model_reads[i][3]]]
    /\ stage = "generic_model" =>
          Cardinality(Range(generic_model_reads)) = 9 * blocks * (2 * layers + 1)

\* C17 amended: the biased model reads 46 distinct entries of its weight
\* tensor: every trainable block b indexes weights[l,b,0..8] once each, no
\* slice weights[l] is used by two trainable blocks, and alpha is the one
\* entry weights[2*layers+1,0,0], which input_prep indexes twice (for the RY
\* of qubit 0 and, plus pi, for the RY of qubit 1); the other
\* 9*blocks - 1 entries of the last slice are never read.  The generic
\* model reads all 45 entries of its weight tensor, each once.
C17_EntriesRead ==
    /\ stage = "model" =>
          /\ Cardinality(Range(model_reads)) = 9 * blocks * (2 * layers + 1) + 1
          /\ Cardinality(Range(model_reads)) = 46
          /\ \A e \in Range(model_reads) :
                Times(model_reads, e) = IF e = AlphaEntry THEN 2 ELSE 1
          /\ Range(model_reads) =
                {<<l, b, j>> : l \in 0..(2 * layers), b \in 0..(blocks - 1), j \in 0..8}
                \cup {AlphaEntry}
          /\ \A n \in 0..(2 * layers) :
                \A i \in 1..(9 * blocks) : model_reads[2 + 9 * blocks * n + i][1] = n
          /\ ModelThetas = [i \in DOMAIN model_reads |->
                  weights[model_reads[i][1]][model_reads[i][2]][model_reads[i][3]]]
          /\ Cardinality(DOMAIN weights) * blocks * 9 = Cardinality(Range(model_reads)) + 9 * blocks - 1
    /\ stage = "generic_model" =>
          /\ Cardinality(Range(generic_model_reads)) = 9 * blocks * (2 * layers + 1)
          /\ Cardinality(Range(generic_model_reads)) = 45
          /\ \A e \in Range(generic_model_reads) : Times(generic_model_reads, e) = 1
          /\ Range(generic_model_reads) =
                {<<l, b, q, j>> : l \in DOMAIN weights, b \in 0..(blocks - 1),
                                  q \in 0..2, j \in 0..2}
          /\ \A n \in 0..(2 * layers) :
                tape[TemplateAt(n)].theta = weights[n]
C17_Witness ==
    /\ stage = "model" /\ pc = 5
    /\ tape[4].theta = weights[2 * layers + 1][0][0]
    /\ tape[5].theta = weights[2 * layers + 1][0][0] + Pi
    /\ weights[2 * layers + 1][0][1] # weights[2 * layers + 1][0][0]
    /\ Times(model_reads, AlphaEntry) = 2
    /\ tape[SegStart(2) + 6].theta = weights[0][0][6]
    /\ tape[SegStart(2) + 8].theta = weights[0][0][6]

(***************************************************************************)
(* Properties of the evaluation.                                           *)
(***************************************************************************)
Halved(p) == FDiv(p, FInt(2))

\* C18: for every expectation value E_k in [-1,1] the model's marginal of
\* player k is ((1+E_k)/2, (1-E_k)/2), both in [0,1] and summing to 1;
\* outcome +1 is at index 0 (the entry at 0 minus the entry at 1 is E_k), as
\* in probs_test, whose index 0 is the payoff probability P(y=+1) and whose
\* index 1 is one minus it.
C18_ModelMarginals ==
    stage = "kl" =>
        \A i \in DOMAIN X_test : \A t \in Idx :
            /\ FLeq(FInt(-1), expvals[i][t]) /\ FLeq(expvals[i][t], One)
            /\ probs[i][t] = model_probs(expvals)[i][t]
            /\ probs[i][t][0] = Halved(FAdd(One, expvals[i][t]))
            /\ probs[i][t][1] = Halved(FSub(One, expvals[i][t]))
            /\ \A y \in 0..1 : FLeq(Zero, probs[i][t][y]) /\ FLeq(probs[i][t][y], One)
            /\ FAdd(probs[i][t][0], probs[i][t][1]) = One
            /\ FSub(probs[i][t][0], probs[i][t][1]) = expvals[i][t]
            /\ probs_test[i][t][0] = payoff_probs(X_test[i])[t]
            /\ probs_test[i][t][1] = FSub(One, payoff_probs(X_test[i])[t])
            /\ DOMAIN probs[i][t] = DOMAIN probs_test[i][t]
C18_Witness ==
    /\ stage = "kl"
    /\ expvals[0][0] = One /\ probs[0][0] = [y \in 0..1 |-> IF y = 0 THEN One ELSE Zero]
    /\ expvals[0][1] = FInt(-1) /\ probs[0][1][1] = One
    /\ expvals[0][2] = Frac(1, 2) /\ probs[0][2][0] = Frac(3, 4)
    /\ probs_test[0][0][0] = One

\* the probability arrays of one sample with an entry equal to 0
HasZeroEntry(pr) == \E t \in Idx : \E y \in 0..1 : pr[t][y] = Zero

\* C19: the KL divergence of a distribution with itself is 0:
\* kl_marginals(p, p) = 0 for every valid 3 x 2 probability array p, rows
\* with an entry equal to 0 included.
C19_SelfKlZero ==
    (stage = "kl" /\ probs = probs_test) =>
        /\ kl_marginals(probs[0], probs_test[0]) = LogZero
        /\ kl = LogZero

\* what the code returns for p against itself: 0 when no entry of p is 0,
\* NaN when one is (0 * log(0/1e-8))
C19_SelfKlNaNAtZero ==
    (stage = "kl" /\ probs = probs_test) =>
        kl = IF HasZeroEntry(probs_test[0]) THEN LogNaN ELSE LogZero
C19_SelfKlWitness ==
    /\ stage = "kl" /\ probs = probs_test
    /\ ~HasZeroEntry(probs_test[0])
    /\ kl = LogZero

\* the mean over the players of sum_y q(y)*log(q(y)/p'(y)) written out entry
\* by entry: p' is the model entry or 1e-8, whichever is larger, q is the
\* true entry as it is
Entries == <<<<0, 0>>, <<0, 1>>, <<1, 0>>, <<1, 1>>, <<2, 0>>, <<2, 1>>>>
AtLeastCutoff(v) == IF FLt(v, Cutoff) THEN Cutoff ELSE v
LogArgument(pm, q, e) == FDiv(q[e[1]][e[2]], AtLeastCutoff(pm[e[1]][e[2]]))
RECURSIVE WeightOf(_, _, _, _)
WeightOf(pm, q, a, n) ==
    IF n = 0 THEN Zero
    ELSE FAdd(WeightOf(pm, q, a, n - 1),
              IF LogArgument(pm, q, Entries[n]) = a
              THEN q[Entries[n][1]][Entries[n][2]] ELSE Zero)
MeanKl(pm, q) ==
    IF \E n \in DOMAIN Entries : q[Entries[n][1]][Entries[n][2]] = Zero
    THEN LogNaN          \* 0 * log(0/p') is NaN in float arithmetic
    ELSE [nan |-> FALSE,
          terms |-> {<<a, FDiv(WeightOf(pm, q, a, Len(Entries)), FInt(3))>> :
                       a \in {LogArgument(pm, q, Entries[n]) : n \in DOMAIN Entries} \ {One}}]

ObservedProb(i, t) == FDiv(FAdd(One, FMul(FInt(lk.Y[i][t]), lk.expvals[i][t])), FInt(2))
ObservedEntries == (0..(lk.N - 1)) \X Idx
ObservedValues == {ObservedProb(e[1], e[2]) : e \in ObservedEntries}
EntriesWith(a) == {e \in ObservedEntries : ObservedProb(e[1], e[2]) = a}
\* a sum of terms c*log(a), each with 0 < a < 1 and c < 0: every term is
\* positive; the empty sum is 0
TermwiseNonNegative(u) ==
    /\ ~u.nan
    /\ \A tm \in u.terms : FLt(Zero, tm[1]) /\ FLt(tm[1], One) /\ FLt(tm[2], Zero)

\* C21: when every observed-label probability (1 + y_k*E_k)/2 lies in (0,1],
\* the value likelihood returns is minus the sum of the logs of these
\* probabilities divided by (number of samples * 3), and it is non-negative.
C21_NonNegativeLlh ==
    (lk.at = "return" /\ \A a \in ObservedValues : FLt(Zero, a) /\ FLeq(a, One)) =>
        /\ lk.ret = likelihood(lk.Y, lk.expvals)
        /\ LogArgs(lk.ret) = ObservedValues \ {One}
        /\ \A a \in ObservedValues \ {One} :
              LogCoef(lk.ret, a) = Frac(0 - Cardinality(EntriesWith(a)), lk.N * 3)
        /\ TermwiseNonNegative(lk.ret)
C21_Witness ==
    /\ lk.at = "return" /\ lk.N = 2
    /\ \A a \in ObservedValues : FLt(Zero, a) /\ FLeq(a, One)
    /\ ObservedValues = {Frac(1, 4), Frac(3, 4)}
    /\ LogCoef(lk.ret, Frac(3, 4)) = Frac(-2, 6)
    /\ LogCoef(lk.ret, Frac(1, 4)) = Frac(-4, 6)

\* the float a symbolic sum stands for is +inf: it has the term c*log(0)
\* with c < 0, and -inf times a negative number is +inf
IsPlusInf(u) == ~u.nan /\ \E tm \in u.terms : tm[1] = Zero /\ FLt(tm[2], Zero)

\* C22: when the model assigns probability <= 0 to an observed label,
\* likelihood returns +infinity or NaN (NaN exactly when a probability is
\* negative) and raises no exception.
C22_FailsByValue ==
    (lk.at = "return" /\ \E a \in ObservedValues : FLeq(a, Zero)) =>
        /\ ~lk.raised
        /\ lk.ret.nan \/ IsPlusInf(lk.ret)
        /\ lk.ret.nan <=> \E a \in ObservedValues : FLt(a, Zero)
C22_Witness ==
    /\ lk.at = "return" /\ ~lk.raised
    /\ Zero \in ObservedValues
    /\ \A a \in ObservedValues : FLeq(Zero, a)
    /\ IsPlusInf(lk.ret)

(***************************************************************************)
(* Properties of the calls with arbitrary arguments.                       *)
(***************************************************************************)
\* C23: get_strat_mats(n) fails with an error for every n < 1, n = 0
\* included, and returns no matrices: once the call has started it is in
\* the raised state, and it never proceeds to draw, normalise or return.
C23_RejectsNonPositive ==
    (call.fn = "get_strat_mats" /\ call.N < 1 /\ call.at # "start") =>
        /\ call.at = "raised"
        /\ call.raised # "none"
        /\ call.ret = <<>>

\* what the code does for n < 1: a negative n raises in np.random.rand, and
\* n = 0 returns the empty array without an error
C23_ZeroReturnsEmpty ==
    (call.fn = "get_strat_mats" /\ call.N < 1 /\ call.at \in {"raised", "returned"}) =>
        IF call.N < 0 THEN call.at = "raised" /\ call.raised = "ValueError"
        ELSE call.at = "returned" /\ call.raised = "none" /\ call.ret = <<>>

\* C24: a malformed strategy matrix (here: a row that does not sum to 1) is
\* rejected with an error by payoff_probs, which computes no result from it.
C24_RejectsMalformed ==
    (call.fn = "payoff_probs" /\ ~ValidStrategy(call.X) /\ call.at # "start") =>
        /\ call.at = "raised"
        /\ call.raised # "none"
        /\ call.ret = <<>>

\* what the code does: payoff_probs raises for no 3 x 3 array and returns
\* (n/2+1)/2 of the bilinear scores of whatever rows it is given
C24_ComputesFromAnyRows ==
    (call.fn = "payoff_probs" /\ call.at # "start") =>
        /\ call.at = "returned" /\ call.raised = "none"
        /\ \A k \in Idx : call.ret[k] = FDiv(FAdd(Scores(call.X)[k], FInt(2)), FInt(4))

\* the shape (2*layers+2, blocks, 9) model indexes into
ShapeFits(w) ==
    /\ Cardinality(DOMAIN w) >= 2 * layers + 2
    /\ \A l \in DOMAIN w :
          /\ Cardinality(DOMAIN w[l]) >= blocks
          /\ \A b \in DOMAIN w[l] : Cardinality(DOMAIN w[l][b]) >= 9

\* C25: a weight tensor with fewer than 2*layers+2 slices, fewer than
\* `blocks` blocks or fewer than 9 entries per block is rejected by the
\* model before any output is produced: no operation is applied and no
\* expectation value is returned.
C25_RejectsWrongShape ==
    (stage = "vmodel" /\ ~ShapeFits(weights)) => (pc = 0 /\ expvals = NoExpvals)

\* what the code does: the circuit of the clamped entries runs to the end
\* and its three expectation values are returned
C25_ClampedOutput ==
    (stage = "vmodel" /\ expvals # NoExpvals) =>
        /\ ~ShapeFits(weights)
        /\ pc = Len(tape) /\ tape = model(JaxIndexed(weights), x)
        /\ \A k \in Wires : expvals[k].den = NormPsi(psi)

(***************************************************************************)
(* Properties of the script and of optimise_model.                         *)
(***************************************************************************)
DataUnchanged == run.X' = run.X /\ run.Y' = run.Y /\ run.P' = run.P
TestSetUnchanged == run.X_test' = run.X_test /\ run.probs_test' = run.probs_test
BeforeTraining == {"start", "data1", "test", "data2"}

\* C26: the training dataset is generated once and is read-only afterwards:
\* once X, Y, P exist no later step replaces or changes them, and the test
\* set X_test / probs_test, once it exists, is not changed either.
C26_GeneratedOnceReadOnly ==
    [][ /\ run.X # Unbound => DataUnchanged
        /\ run.X_test # Unbound => TestSetUnchanged ]_vars

\* C26 as amended: X, Y, P are bound a second time by the second
\* generate_data call and X a third time by the scaling; from the scaling
\* on no step of the script and no step of optimise_model changes X, Y or
\* P, and the test set is never changed once it exists.
C26_ReadOnlyOnceScaled ==
    [][ /\ run.at \notin BeforeTraining => DataUnchanged
        /\ run.X_test # Unbound => TestSetUnchanged
        /\ (run.at = "data1" \/ run.at = "scaled") => DataUnchanged
        /\ run.at = "test" => (run.X'.pos > run.X.pos /\ run.Y' # run.Y /\ run.P' # run.P)
        /\ run.at = "data2" =>
              (run.X'.factor = run.X.factor + 1 /\ run.X'.values = run.X.values
               /\ run.Y' = run.Y /\ run.P' = run.P) ]_vars
C26_Witness ==
    /\ run.at = "end" /\ run.nstep >= 1
    /\ run.X.factor = 1 /\ run.X.pos > run.X_test.pos /\ run.Y.pos = run.X.pos
    /\ Len(run.plot_model[1]) = run.nstep /\ Len(run.plot_generic[1]) = run.nstep

\* the number of optimizer updates that were applied to reach the weights w
RECURSIVE UpdatesIn(_)
UpdatesIn(w) == IF w.fn = "apply_updates" THEN 1 + UpdatesIn(w.weights) ELSE 0
InIteration == {"grads", "updates", "applied", "kl"}
\* iteration i (1..) as the plot lists record it: the loss is taken at the
\* weights after i-1 updates, the update is computed from the gradient at
\* these same weights, and the KL is taken at the weights after this update
RecordedIteration(i) ==
    LET l == run.plot[2][i]
        k == run.plot[3][i]
    IN  /\ run.plot[1][i] = i - 1
        /\ l.fn = "likelihood" /\ UpdatesIn(l.weights) = i - 1
        /\ k.fn = "get_av_test_kl" /\ UpdatesIn(k.weights) = i
        /\ k.weights.weights = l.weights
        /\ k.weights.updates.fn = "update.updates"
        /\ k.weights.updates.grads.fn = "grad likelihood"
        /\ k.weights.updates.grads.weights = l.weights
        /\ k.weights.updates.weights = l.weights
        /\ UpdatesIn(k.weights.updates.state.weights) = IF i = 1 THEN 0 ELSE i - 2
        /\ IF i = 1 THEN l.weights.fn = "rand" /\ k.weights.updates.state.fn = "init"
           ELSE l.weights = run.plot[3][i - 1].weights

\* C27: optimise_model with nstep >= 1 performs exactly nstep iterations and
\* returns; in each iteration the loss and gradient are computed at the
\* current weights, then the optimizer's updates and new state, then the
\* updates are applied (the only change of the weights, once per
\* iteration), then the test KL is computed at the updated weights.  On
\* return the plot lists have length nstep, plot[0] is 0..nstep-1, the i-th
\* likelihood is at the weights before update i, the i-th KL at the weights
\* after it, and the returned llh and kl are the last recorded values.
C27_IterationOrder ==
    (run.at \in InIteration \cup {"loop", "returned"} /\ run.nstep >= 1) =>
        /\ run.done <= run.nstep
        /\ \A j \in 1..3 : Len(run.plot[j]) = run.done
        /\ \A i \in 1..run.done : RecordedIteration(i)
        /\ UpdatesIn(run.weights) = run.done + (IF run.at \in {"applied", "kl"} THEN 1 ELSE 0)
        /\ run.at \in InIteration =>
              /\ run.step = run.done
              /\ run.llh.fn = "likelihood" /\ UpdatesIn(run.llh.weights) = run.done
              /\ run.grads.weights = run.llh.weights
        /\ run.at = "grads" => run.weights = run.llh.weights
        /\ run.at = "updates" =>
              /\ run.weights = run.llh.weights
              /\ run.updates.grads = run.grads
              /\ run.opt_state.grads = run.grads
              /\ run.opt_state.state = run.updates.state
        /\ run.at \in {"applied", "kl"} =>
              /\ run.weights.weights = run.llh.weights
              /\ run.weights.updates = run.updates
        /\ run.at = "kl" => run.kl.weights = run.weights
        /\ (run.at = "loop" /\ run.done >= 1) =>
              /\ run.kl = run.plot[3][run.done] /\ run.llh = run.plot[2][run.done]
              /\ run.weights = run.kl.weights
        /\ run.at = "returned" =>
              /\ run.done = run.nstep
              /\ run.ret = << run.plot[3][run.nstep].weights, run.plot[2][run.nstep],
                              run.plot[3][run.nstep], run.plot >>
              /\ run.raised = "none"
C27_Witness ==
    /\ run.at = "returned" /\ run.nstep = 2 /\ run.model = "vmodel_generic"
    /\ run.ret[4][1] = <<0, 1>>
    /\ UpdatesIn(run.ret[1]) = 2
    /\ UpdatesIn(run.ret[2].weights) = 1 /\ UpdatesIn(run.ret[3].weights) = 2

\* C29: every strategy matrix passed to a model during optimise_model has
\* had the same preprocessing: the training inputs of the loss and the test
\* inputs of the test KL are both scaled by the factor pi/2, once.
C29_SamePreprocessing ==
    (run.llh # Unbound /\ run.kl # Unbound) =>
        /\ run.llh.X.factor = 1
        /\ run.kl.X_test.factor = run.llh.X.factor

\* what the code does: the loss sees X scaled by pi/2, the test KL sees
\* X_test as get_strat_mats returned it
C29_TestInputsUnscaled ==
    /\ run.llh # Unbound => run.llh.X.factor = 1
    /\ run.kl # Unbound => run.kl.X_test.factor = 0 /\ run.kl.probs_test.factor = 0

\* C30: optimise_model called with nstep = 0 performs no optimizer update
\* and returns the initial weights unchanged together with three empty
\* plot lists.
C30_ZeroStepsReturnsInitial ==
    (run.at \in {"returned", "raised"} /\ run.nstep = 0) =>
        /\ run.at = "returned" /\ run.raised = "none"
        /\ run.ret[1] = run.weights_model
        /\ run.ret[4] = << <<>>, <<>>, <<>> >>

\* what the code does: no update is made, and the return statement reads
\* llh, which no iteration has assigned
C30_ZeroStepsRaises ==
    (run.at \in {"returned", "raised"} /\ run.nstep = 0) =>
        /\ run.at = "raised" /\ run.raised = "UnboundLocalError"
        /\ run.ret = Unbound
        /\ run.weights = run.weights_model /\ run.plot = << <<>>, <<>>, <<>> >>

(***************************************************************************)
(* Properties of the batch processed in any order.                         *)
(***************************************************************************)
\* what the statements of the program compute for the whole batch, in order
SeqX == get_strat_mats(par.N, par.U)
SeqP == vpayoff_probs(SeqX)
SeqY == Labels(par.N, SeqP, par.r)
SeqTrue == TrueProbs(SeqX)
\* the batch with its samples in the opposite order
Reversed(f) == [i \in 0..(par.N - 1) |-> f[(par.N - 1) - i]]

\* C28: dataset generation, likelihood evaluation and KL evaluation have no
\* ordering dependency across samples: whatever the order in which the
\* rows and samples of the batch are processed, what has been computed for
\* sample i (strategy matrix, payoff probabilities, label, model output,
\* likelihood entries, KL term) is what the program computes for it in
\* order, and a sample gets the same values at another position of the
\* batch.
C28_AnyOrderSameResults ==
    par.at = "batch" =>
        /\ \A i \in 0..(par.N - 1) :
              /\ \A k \in Idx :
                    par.X[i][k] = IF <<i, k>> \in par.rows THEN SeqX[i][k]
                                  ELSE [c \in Idx |-> Uniform(par.U[i][k][c])]
              /\ par.did[i] \in {"P", "Y", "K"} => par.P[i] = SeqP[i]
              /\ par.did[i] \in {"Y", "K"} => par.Y[i] = SeqY[i]
              /\ par.did[i] = "K" =>
                    /\ par.E[i] = ModelOutput(SeqX[i])
                    /\ par.L[i] = LlhTerms(SeqY[i], ModelOutput(SeqX[i]))
                    /\ par.K[i] = KlTerm(ModelOutput(SeqX[i]), SeqTrue[i])
        /\ par.rows = {} =>
              /\ get_strat_mats(par.N, Reversed(par.U)) = Reversed(SeqX)
              /\ vpayoff_probs(Reversed(SeqX)) = Reversed(SeqP)
              /\ par.r # NotYet =>
                    Labels(par.N, Reversed(SeqP), Reversed(par.r)) = Reversed(SeqY)
C28_Witness ==
    /\ par.at = "batch" /\ par.N = 2
    /\ par.did[1] = "K" /\ par.did[0] = "nothing"
    /\ \A k \in Idx : <<0, k>> \notin par.rows
    /\ \E k \in Idx : ~IsNaN(par.P[1][k]) /\ par.Y[1][k] = 1
    /\ par.U[0] # par.U[1]

====
